---- MODULE Spec2Model ----
(***************************************************************************)
(* Model of the plan lifecycle (Backend/app/routers/chat.py) on top of the *)
(* Redis wrapper with in-memory fallback                                   *)
(* (Backend/app/services/storage/redis_store.py), and of the sandbox       *)
(* executor (Backend/app/services/ai/tools.py).                            *)
(*                                                                         *)
(* A durable call is modelled as one atomic step at the Redis server: it   *)
(* either succeeds, or fails with a connectivity error without having been *)
(* applied; the except branch of the wrapper runs without a suspension     *)
(* point (the module lock is never held across an await), so the fallback  *)
(* belongs to the same step.                                               *)
(***************************************************************************)
EXTENDS Integers, Sequences, FiniteSets, TLC

\* ---------------------------------------------------------------- bounds
MaxReq == 3
MaxConc == 2
MaxPlans == 1
MaxInst == 2
MaxCalls == 3
MaxReplyLen == 3
TickStep == 900
MaxNow == 1800
MaxScriptLen == 2
LoopStep == 5
MaxElapsed == 15
MaxBoots == 3
MaxChunks == 2
MaxRepresentations == 2

\* ------------------------------------------------------ program constants
PlanTTL == 60 * 30
PythonTool == "python_code_executor"
calculator_timeout_sec == 10

Users == {"A", "B"}
PlanIds == 1..MaxPlans
Slots == 1..MaxConc
Insts == 1..MaxInst

NoneVal == [none |-> TRUE]
NoExpire == 0

\* keys of the JSON namespace: f"plan:{plan_id}", f"company-profile:{user_id}",
\* and two keys for direct calls of the wrapper, f"doc:{id}" and one of a
\* namespace whose name extends it
PlanKey(p) == [ns |-> "plan", id |-> p]
ProfileKey(u) == [ns |-> "company-profile", id |-> u]
\* f"integration:alpha-business:{user_id}", f"profile-index-status:{user_id}"
IntegrationKey(u) == [ns |-> "integration:alpha-business", id |-> u]
StatusKey(u) == [ns |-> "profile-index-status", id |-> u]
FreeKeys == {[ns |-> "doc", id |-> 1], [ns |-> "docs", id |-> 1]}
JsonKeys ==
    {PlanKey(p) : p \in PlanIds} \cup {ProfileKey(u) : u \in Users} \cup FreeKeys
    \cup {IntegrationKey(u) : u \in Users} \cup {StatusKey(u) : u \in Users}

\* values written by direct calls of the wrapper
FreeValues == {[v |-> 1], [v |-> 2]}

VARIABLES
    redisUp,      \* the durable store currently answers
    redisJson,    \* durable string keys: key -> NoneVal or [payload, exp]
    redisLists,   \* durable list keys dialog:{user_id}
    memJson,      \* _memory_json
    memLists,     \* _memory_lists
    now,          \* wall clock of the durable store, seconds
    convMemOnly,  \* _use_memory_only of ConversationManager._redis
    req,          \* the requests of the chat router that are being served
    started,      \* number of requests that have arrived
    posted,       \* number of post_message requests among them
    nextPlan,     \* next fresh plan_id (uuid4)
    plans,        \* history: what post_message persisted for each plan_id
    runs,         \* history: per plan_id, how its execute requests ended
    execLog,      \* history: invocations of the sandbox executor
    dialogIndex,  \* dialogs upserted into the vector index
    degraded,     \* history: some direct call observed a durable error
    lateAttempt,  \* history: a durable call was attempted after that
    instMemOnly,  \* _use_memory_only of directly driven RedisStore instances
    lastCall,     \* history: the last direct call of the wrapper
    lastSet,      \* history: per key, the last completed set_json
    calls,        \* number of direct calls made
    task,         \* push_dialog / fetch_dialog / delete calls in progress
    memLock,      \* _memory_lock: 0 or the task holding it
    pushLog,      \* history: per user, the pushes completed since the last delete
    memLog,       \* history: per user, the pushes completed in memory since its last delete
    lastDel,      \* history: per user, the path that served the last delete
    nextMsg,      \* next message pushed by a direct call
    run,          \* one call of CalculatorEngine.run
    gen,          \* one call of the generation client
    kb,           \* the vector index server: its indices and what they hold
    kbCall,       \* one call of the knowledge retrieval facade
    boot,         \* KnowledgeBase.initialize as called when the process starts
    intg,         \* one request of the integration router and its background tasks
    SAFE_BUILTINS, \* RestrictedPythonExecutor.SAFE_BUILTINS, the dict of the class
    bot           \* one message handled by the bot

vars == <<redisUp, redisJson, redisLists, memJson, memLists, now, convMemOnly,
          req, started, posted, nextPlan, plans, runs, execLog, dialogIndex, degraded,
          lateAttempt, instMemOnly, lastCall, lastSet, calls,
          task, memLock, pushLog, memLog, lastDel, nextMsg, run, gen, kb, kbCall, boot, intg,
          SAFE_BUILTINS, bot>>

jsonVars == <<redisJson, memJson>>
listVars == <<redisLists, memLists>>
storeVars == <<redisJson, redisLists, memJson, memLists>>
chatVars == <<req, started, posted, nextPlan, plans, runs, execLog, dialogIndex, convMemOnly>>
dialogVars == <<task, memLock, pushLog, memLog, lastDel, nextMsg>>
kbVars == <<kb, kbCall, boot>>
intgVars == <<intg>>
sandboxVars == <<SAFE_BUILTINS>>
botVars == <<bot>>
toolVars == <<run, sandboxVars, gen, kbVars, intgVars, botVars>>
directVars == <<degraded, lateAttempt, instMemOnly, lastCall, lastSet, calls,
                dialogVars, toolVars>>

\* ------------------------------------------------------------ RedisStore
\* json.dumps / json.loads: the payload is a string, not the value
json_dumps(value) == [json |-> value]
json_loads(raw) == raw.json

\* _can_use_redis: the client is never None after construction
can_use_redis(flag) == ~flag

\* the durable call is attempted and answers
RedisOk(flag) == can_use_redis(flag) /\ redisUp

\* the durable call is attempted and raises RedisError / OSError
RedisFails(flag) == can_use_redis(flag) /\ ~redisUp

\* _mark_unavailable, as reached from the except branches
mark_unavailable(flag) == IF RedisFails(flag) THEN TRUE ELSE flag

\* what a failing durable call raises: redis.exceptions.RedisError (with its
\* subclasses ConnectionError, TimeoutError, ResponseError, InvalidResponse) or
\* OSError
StoreErrors == {"RedisError", "OSError"}

\* faulty variant: except RedisError
catches_redis_error_only(exc) == exc = "RedisError"

\* except (RedisError, OSError)
catches(exc) == exc \in {"RedisError", "OSError"}

\* the exception of a failing durable call leaves the wrapper
escapes(flag, exc) == RedisFails(flag) /\ ~catches(exc)

\* GET of the durable store: an expired key is absent
RedisGet(key) ==
    IF redisJson[key] # NoneVal
       /\ (redisJson[key].exp = NoExpire \/ now < redisJson[key].exp)
    THEN redisJson[key].payload
    ELSE NoneVal

\* SET key payload EX expire
RedisSet(key, payload, expire) ==
    [redisJson EXCEPT ![key] =
        [payload |-> payload,
         exp |-> IF expire = NoExpire THEN NoExpire ELSE now + expire]]

\* faulty variant: the TTL is not passed to SET
set_json_redis_no_ttl(flag, key, value, expire) ==
    IF RedisOk(flag) THEN RedisSet(key, json_dumps(value), NoExpire) ELSE redisJson

set_json_redis(flag, key, value, expire) ==
    IF RedisOk(flag) THEN RedisSet(key, json_dumps(value), expire) ELSE redisJson

\* faulty variant: the except branch returns, so the write that observed the
\* failure is lost
set_json_mem_lost(flag, key, value) ==
    IF can_use_redis(flag) THEN memJson ELSE [memJson EXCEPT ![key] = json_dumps(value)]

set_json_mem(flag, key, value) ==
    IF RedisOk(flag) THEN memJson ELSE [memJson EXCEPT ![key] = json_dumps(value)]

\* faulty variant: the in-memory map is read before the durable store
get_json_memory_first(flag, key) ==
    LET raw == IF memJson[key] # NoneVal \/ ~RedisOk(flag)
               THEN memJson[key] ELSE RedisGet(key)
    IN IF raw # NoneVal THEN json_loads(raw) ELSE NoneVal

get_json(flag, key) ==
    LET raw == IF RedisOk(flag) THEN RedisGet(key) ELSE memJson[key]
    IN IF raw # NoneVal THEN json_loads(raw) ELSE NoneVal

delete_redis(flag, key) ==
    IF RedisOk(flag) THEN [redisJson EXCEPT ![key] = NoneVal] ELSE redisJson

delete_mem(flag, key) ==
    IF RedisOk(flag) THEN memJson ELSE [memJson EXCEPT ![key] = NoneVal]

\* delete of a list key dialog:{user_id}
delete_list_redis(flag, user) ==
    IF RedisOk(flag) THEN [redisLists EXCEPT ![user] = <<>>] ELSE redisLists

delete_list_mem(flag, user) ==
    IF RedisOk(flag) THEN memLists ELSE [memLists EXCEPT ![user] = <<>>]

push_dialog_redis(flag, user, message) ==
    IF RedisOk(flag) THEN [redisLists EXCEPT ![user] = Append(@, message)] ELSE redisLists

push_dialog_mem(flag, user, message) ==
    IF RedisOk(flag) THEN memLists ELSE [memLists EXCEPT ![user] = Append(@, message)]

\* the names of the keys, character by character
NsChars(ns) ==
    CASE ns = "plan" -> <<"p", "l", "a", "n">>
      [] ns = "company-profile" ->
            <<"c", "o", "m", "p", "a", "n", "y", "-", "p", "r", "o", "f", "i", "l", "e">>
      [] ns = "doc" -> <<"d", "o", "c">>
      [] ns = "docs" -> <<"d", "o", "c", "s">>
      [] ns = "integration:alpha-business" ->
            <<"i", "n", "t", "e", "g", "r", "a", "t", "i", "o", "n", ":", "a", "l", "p",
              "h", "a", "-", "b", "u", "s", "i", "n", "e", "s", "s">>
      [] ns = "profile-index-status" ->
            <<"p", "r", "o", "f", "i", "l", "e", "-", "i", "n", "d", "e", "x", "-", "s",
              "t", "a", "t", "u", "s">>

Digit(n) == CASE n = 1 -> "1" [] n = 2 -> "2" [] n = 3 -> "3" [] OTHER -> "9"

key_name(k) ==
    NsChars(k.ns) \o <<":">>
    \o (IF k.ns \in {"plan", "doc", "docs"} THEN <<Digit(k.id)>> ELSE <<k.id>>)

\* f"dialog:{user_id}"
dialog_key(user) == <<"d", "i", "a", "l", "o", "g", ":", user>>

\* fnmatch.fnmatch on POSIX (normcase is the identity): * matches any run of
\* characters, ? any single one, anything else itself; [seq] is not used by
\* the patterns below
\* faulty variant: a literal of the pattern matches any character
RECURSIVE fnmatch_loose(_, _)
fnmatch_loose(name, pat) ==
    IF pat = <<>> THEN name = <<>>
    ELSE IF Head(pat) = "*"
         THEN fnmatch_loose(name, Tail(pat))
              \/ (name # <<>> /\ fnmatch_loose(Tail(name), pat))
    ELSE name # <<>> /\ fnmatch_loose(Tail(name), Tail(pat))

RECURSIVE fnmatch(_, _)
fnmatch(name, pat) ==
    IF pat = <<>> THEN name = <<>>
    ELSE IF Head(pat) = "*"
         THEN fnmatch(name, Tail(pat))
              \/ (name # <<>> /\ fnmatch(Tail(name), pat))
    ELSE IF Head(pat) = "?"
         THEN name # <<>> /\ fnmatch(Tail(name), Tail(pat))
    ELSE name # <<>> /\ Head(name) = Head(pat) /\ fnmatch(Tail(name), Tail(pat))


\* [key for key in _memory_json if fnmatch(key, pattern)]
keys_mem(pattern) ==
    {key_name(k) : k \in {j \in JsonKeys : memJson[j] # NoneVal
                                           /\ fnmatch(key_name(j), pattern)}}

\* KEYS pattern: the live keys of every type whose name matches the glob
keys_redis(pattern) ==
    {key_name(k) : k \in {j \in JsonKeys : RedisGet(j) # NoneVal
                                           /\ fnmatch(key_name(j), pattern)}}
    \cup {dialog_key(u) : u \in {v \in Users : redisLists[v] # <<>>
                                             /\ fnmatch(dialog_key(v), pattern)}}

keys(flag, pattern) == IF RedisOk(flag) THEN keys_redis(pattern) ELSE keys_mem(pattern)

\* history of the degradation, kept by the direct calls of the wrapper
Observe(flag) ==
    /\ degraded' = (degraded \/ RedisFails(flag))
    /\ lateAttempt' = (lateAttempt \/ (degraded /\ can_use_redis(flag)))

\* --------------------------------------------------- sandbox and registry
\* what the orchestrator may draft: the tool name and how the script behaves
PlanDrafts ==
    {[tool |-> PythonTool, code |-> "good"],
     [tool |-> PythonTool, code |-> "bad"],
     [tool |-> "unknown_tool", code |-> "good"]}

\* RestrictedPythonExecutor.execute: success unless the script raises
python_execute(code) == IF code = "good" THEN "ok" ELSE "fail"

\* ToolRegistry.execute: an unknown tool is a failed result
registry_execute(name, code) ==
    IF name = PythonTool THEN python_execute(code) ELSE "fail"

\* CalculatorEngine.run
calculator_run(data) == registry_execute(data.tool, data.code)

\* ---- the executor statement by statement
\* what a script is made of:
\*   print        print("x")
\*   print_blank  print()
\*   assign       result = 42
\*   raise        1 / 0
\*   assert       assert False   (AssertionError(): str(exc) is empty)
\*   import       import os      (no __import__ among the builtins)
\*   name         open("f")      (not one of SAFE_BUILTINS)
\*   loop         while True: pass
\*   call         len([])        (one of SAFE_BUILTINS)
\*   alter        __builtins__["len"] = 0
Stmts ==
    {"print", "print_blank", "assign", "raise", "assert", "import", "name", "loop",
     "call", "alter"}

\* the dict as the class body defines it: every name is bound to its function
BuiltinsAsDefined == [len |-> "function"]

Faults == {"raise", "assert", "import", "name"}

Scripts == UNION {[1..n -> Stmts] : n \in 0..MaxScriptLen}

\* the "code" entry of the plan's variables: a string, or any other JSON value
Codes == {[str |-> TRUE, body |-> s] : s \in Scripts} \cup {[str |-> FALSE, body |-> <<>>]}

\* request.variables: with or without an entry named result
Variables == {NoneVal, [result |-> 7]}

ToolNames == {PythonTool, "unknown_tool"}

\* str(exc) of what the statement raises
exc_text(stmt) ==
    CASE stmt = "raise" -> "division by zero"
      [] stmt = "assert" -> ""
      [] stmt = "import" -> "__import__ not found"
      [] stmt = "name" -> "name 'open' is not defined"
      [] stmt = "call" -> "'int' object is not callable"

\* f"result = {locals_namespace['result']}"
EchoLine(v) == IF v = 42 THEN "result = 42" ELSE "result = 7"

\* str.strip() on a text kept as its lines: leading and trailing blank lines go
RECURSIVE lstrip(_)
lstrip(lines) ==
    IF lines # <<>> /\ Head(lines) = "" THEN lstrip(Tail(lines)) ELSE lines

RECURSIVE rstrip(_)
rstrip(lines) ==
    IF lines # <<>> /\ lines[Len(lines)] = ""
    THEN rstrip(SubSeq(lines, 1, Len(lines) - 1)) ELSE lines

strip(lines) == rstrip(lstrip(lines))

\* faulty variant: only a result assigned by the script counts
has_result_assigned_only(ns) == ns # NoneVal /\ ns.result = 42

\* "result" in locals_namespace
has_result(ns) == ns # NoneVal

\* output_text += "\nresult = ..." : the empty text gets a leading empty line
echo_result(text, ns) ==
    IF has_result(ns)
    THEN (IF text = <<>> THEN <<"">> ELSE text) \o <<EchoLine(ns.result)>>
    ELSE text

success_result(name, stdout, ns, elapsed) ==
    LET output_text == echo_result(strip(stdout), ns)
    IN [name |-> name,
        output |-> IF output_text = <<>> THEN <<"<no output>">> ELSE output_text,
        success |-> TRUE, error |-> NoneVal, duration_ms |-> elapsed * 1000]

failure_result(name, stdout, message, elapsed) ==
    [name |-> name, output |-> strip(stdout), success |-> FALSE,
     error |-> [text |-> message], duration_ms |-> elapsed * 1000]

unknown_tool_result(name) ==
    [name |-> name, output |-> <<>>, success |-> FALSE,
     error |-> [text |-> "Unknown tool"], duration_ms |-> 0]

\* faulty variant: every name is dispatched to the python executor
is_python_tool_any(name) == TRUE

\* request.name == "python_code_executor"
is_python_tool(name) == name = PythonTool

\* ToolExecutionRequest(**request_payload): code: str
valid_request(code) == code.str

IdleRun ==
    [pc |-> "idle", name |-> PythonTool, code |-> [str |-> TRUE, body |-> <<>>],
     ns |-> NoneVal, stdout |-> <<>>, ip |-> 0, elapsed |-> 0, steps |-> 0,
     fault |-> "none", res |-> NoneVal, altered |-> FALSE]

\* CalculatorEngine.run up to the first statement of the script: the request
\* is validated, then dispatched by name
ToolRun(name, code, variables) ==
    /\ run.pc = "idle"
    /\ run' =
         IF ~valid_request(code)
         THEN [IdleRun EXCEPT !.pc = "raised", !.name = name, !.code = code]
         ELSE IF is_python_tool(name)
         THEN [IdleRun EXCEPT !.pc = "running", !.name = name, !.code = code,
                              !.ns = variables, !.ip = 1]
         ELSE [IdleRun EXCEPT !.pc = "returned", !.name = name, !.code = code,
                              !.res = unknown_tool_result(name)]
    /\ UNCHANGED <<redisUp, now, storeVars, chatVars, degraded, lateAttempt,
                   instMemOnly, lastCall, lastSet, calls, dialogVars, botVars, gen, kbVars,
                   intgVars, sandboxVars>>

\* exec(code, {"__builtins__": self.SAFE_BUILTINS}, locals_namespace): one
\* statement of the script; the globals hold the dict of the class itself
ExecStep ==
    /\ run.pc = "running"
    /\ run.ip <= Len(run.code.body)
    /\ LET stmt == run.code.body[run.ip]
           failed(s) == [run EXCEPT !.pc = "returned", !.fault = s, !.steps = @ + 1,
                                    !.res = failure_result(run.name, run.stdout,
                                                           exc_text(s), run.elapsed)]
       IN /\ stmt = "loop" => run.elapsed < MaxElapsed
          /\ SAFE_BUILTINS' = IF stmt = "alter" THEN [SAFE_BUILTINS EXCEPT !.len = "int"]
                              ELSE SAFE_BUILTINS
          /\ run' =
               CASE stmt = "call" ->
                      IF SAFE_BUILTINS.len = "function"
                      THEN [run EXCEPT !.ip = @ + 1, !.steps = @ + 1]
                      ELSE failed(stmt)
                 [] stmt = "alter" ->
                      [run EXCEPT !.altered = TRUE, !.ip = @ + 1, !.steps = @ + 1]
                 [] stmt = "print" ->
                      [run EXCEPT !.stdout = Append(@, "x"), !.ip = @ + 1, !.steps = @ + 1]
                 [] stmt = "print_blank" ->
                      [run EXCEPT !.stdout = Append(@, ""), !.ip = @ + 1, !.steps = @ + 1]
                 [] stmt = "assign" ->
                      [run EXCEPT !.ns = [result |-> 42], !.ip = @ + 1, !.steps = @ + 1]
                 [] stmt = "loop" ->
                      [run EXCEPT !.elapsed = @ + LoopStep, !.steps = 1]
                 [] stmt \in Faults -> failed(stmt)
    /\ UNCHANGED <<redisUp, now, storeVars, chatVars, degraded, lateAttempt,
                   instMemOnly, lastCall, lastSet, calls, dialogVars, botVars, gen, kbVars,
                   intgVars>>

\* the script ran to its end
ExecReturn ==
    /\ run.pc = "running"
    /\ run.ip > Len(run.code.body)
    /\ run' = [run EXCEPT !.pc = "returned",
                          !.res = success_result(run.name, run.stdout, run.ns,
                                                 run.elapsed)]
    /\ UNCHANGED <<redisUp, now, storeVars, chatVars, degraded, lateAttempt,
                   instMemOnly, lastCall, lastSet, calls, dialogVars, botVars, gen, kbVars,
                   intgVars, sandboxVars>>

\* the result has been handed to the caller (or the exception has left the
\* engine): the executor of the registry is ready for the next request
ExecClose ==
    /\ run.pc \in {"returned", "raised"}
    /\ run' = IdleRun
    /\ UNCHANGED <<redisUp, now, storeVars, chatVars, degraded, lateAttempt,
                   instMemOnly, lastCall, lastSet, calls, dialogVars, botVars, gen, kbVars,
                   intgVars, sandboxVars>>

\* texts the generation provider may return (generate_content)
Replies == UNION {[1..n -> {"x"}] : n \in 0..MaxReplyLen}

\* reply_text, tools_used = <str>: unpacking succeeds on exactly two items
unpack_ok(reply) == Len(reply) = 2

\* faulty variants: the ownership check is missing, or inverted
owner_matches_always(data, user) == TRUE

owner_matches_inverted(data, user) == data.user_id # user

\* data.get("user_id") != payload.user_id
owner_matches(data, user) == data.user_id = user

\* ----------------------------------------------------------- chat router
IdleReq ==
    [kind |-> "idle", user |-> "A", plan |-> 0, pc |-> "idle", store |-> FALSE,
     status |-> 0, result |-> "none", fault |-> "none", draft |-> NoneVal,
     deleted |-> FALSE, prior |-> {}, stale |-> FALSE, classified |-> "none",
     wrote |-> {}]

InFlight(r) == req[r].kind # "idle" /\ req[r].pc # "done"
Finished(r) == req[r].kind # "idle" /\ req[r].pc = "done"

\* a request enters the router: Depends(get_store) builds a new RedisStore;
\* conc bounds the requests served together
CanStart(r, conc) ==
    /\ started < MaxReq
    /\ req[r].kind = "idle"
    /\ \A q \in Slots : q < r => req[q].kind # "idle"
    /\ Cardinality({q \in Slots : req[q].kind # "idle"}) < conc

\* the response leaves the handler: its RedisStore and its locals are dropped
Respond(r, code, what) ==
    [req EXCEPT ![r].pc = "done", ![r].status = code, ![r].fault = what,
                ![r].store = FALSE, ![r].draft = NoneVal]

Fail(r, code, what) == Respond(r, code, what)

Goto(r, label) == [req EXCEPT ![r].pc = label]

\* history: what the request has written so far: a "user" or "assistant"
\* message, a "plan" record, a dialog in the vector "index", a "delete"
Wrote(q, r, what) == [q EXCEPT ![r].wrote = @ \cup what]

\* history: how an execute request that invoked the executor ended.
\* "ok": the result was successful and every provider and index call answered;
\* "failed": a later step of the request raised
NoteRun(r, what) ==
    [runs EXCEPT ![req[r].plan] =
        @ \cup (IF req[r].result = "ok" /\ what \notin {"provider", "index"}
                THEN {"ok"} ELSE {})
          \cup (IF what # "none" THEN {"failed"} ELSE {})]

\* ConversationManager.append_messages for one message
ConvPush(user, message) ==
    /\ redisLists' = push_dialog_redis(convMemOnly, user, message)
    /\ memLists' = push_dialog_mem(convMemOnly, user, message)
    /\ convMemOnly' = mark_unavailable(convMemOnly)

StartPost(r, u, conc) ==
    /\ CanStart(r, conc)
    /\ posted < MaxPlans
    /\ req' = [req EXCEPT ![r] = [IdleReq EXCEPT !.kind = "post", !.user = u,
                                                 !.pc = "append_user"]]
    /\ started' = started + 1
    /\ posted' = posted + 1
    /\ UNCHANGED <<redisUp, now, storeVars, convMemOnly, nextPlan, plans, runs,
                   execLog, dialogIndex, directVars>>

PostAppendUser(r) ==
    /\ req[r].kind = "post" /\ req[r].pc = "append_user"
    /\ ConvPush(req[r].user, "user")
    /\ req' = Wrote(Goto(r, "fetch"), r, {"user"})
    /\ UNCHANGED <<redisUp, now, jsonVars, started, posted, nextPlan, plans, runs,
                   execLog, dialogIndex, directVars>>

\* conversation.get_recent_messages: a read that may degrade the manager's store
PostFetch(r) ==
    /\ req[r].kind = "post" /\ req[r].pc = "fetch"
    /\ convMemOnly' = mark_unavailable(convMemOnly)
    /\ req' = Goto(r, "profile")
    /\ UNCHANGED <<redisUp, now, storeVars, started, posted, nextPlan, plans, runs,
                   execLog, dialogIndex, directVars>>

\* _get_company_profile_info: get_json on the request's store
PostProfile(r) ==
    /\ req[r].kind = "post" /\ req[r].pc = "profile"
    /\ req' = [req EXCEPT ![r].pc = "search",
                          ![r].store = mark_unavailable(req[r].store)]
    /\ UNCHANGED <<redisUp, now, storeVars, convMemOnly, started, posted, nextPlan, plans,
                   runs, execLog, dialogIndex, directVars>>

\* knowledge_base.search(payload.content, user_id=payload.user_id): the facade
\* degrades to no hits, but an index error is not caught; KnowledgeBase.search
\* takes (query, k), so with the facade of lifespan the keyword user_id raises
\* TypeError, which is the outcome "error" as well; the handler is followed
\* past this line for a facade that accepts the keyword
PostSearch(r) ==
    /\ req[r].kind = "post" /\ req[r].pc = "search"
    /\ \E out \in {"hits", "unavailable", "error"} :
          req' = IF out = "error" THEN Fail(r, 500, "search") ELSE Goto(r, "decide")
    /\ UNCHANGED <<redisUp, now, storeVars, convMemOnly, started, posted, nextPlan, plans,
                   runs, execLog, dialogIndex, directVars>>

\* faulty variant: a failed classification is answered as an advisor
on_decide_defaults_to_advisor(r, out) ==
    IF out = "calculator" THEN Goto(r, "draft_plan") ELSE Goto(r, "draft_advisor")

\* decision = await orchestrator.decide(...): nothing catches what it raises;
\* then the branch on decision.mode
on_decide(r, out) ==
    CASE out = "error" -> Fail(r, 500, "provider")
      [] out = "advisor" -> Goto(r, "draft_advisor")
      [] out = "calculator" -> Goto(r, "draft_plan")

PostDecide(r) ==
    /\ req[r].kind = "post" /\ req[r].pc = "decide"
    /\ \E out \in {"advisor", "calculator", "error"} :
          req' = [on_decide(r, out) EXCEPT
                     ![r].classified = IF out = "error" THEN "raised" ELSE out]
    /\ UNCHANGED <<redisUp, now, storeVars, convMemOnly, started, posted, nextPlan, plans,
                   runs, execLog, dialogIndex, directVars>>

PostDraftAdvisor(r) ==
    /\ req[r].kind = "post" /\ req[r].pc = "draft_advisor"
    /\ \E ok \in BOOLEAN :
          req' = IF ok THEN Goto(r, "append_advisor") ELSE Fail(r, 500, "provider")
    /\ UNCHANGED <<redisUp, now, storeVars, convMemOnly, started, posted, nextPlan, plans,
                   runs, execLog, dialogIndex, directVars>>

PostAppendAdvisor(r) ==
    /\ req[r].kind = "post" /\ req[r].pc = "append_advisor"
    /\ ConvPush(req[r].user, "assistant")
    /\ req' = Wrote(Goto(r, "index_advisor"), r, {"assistant"})
    /\ UNCHANGED <<redisUp, now, jsonVars, started, posted, nextPlan, plans, runs,
                   execLog, dialogIndex, directVars>>

\* knowledge_base.index_dialog: False when embedding is unavailable, raises when
\* the vector index does; each dialog is stored under a fresh id
IndexDialog(r, out) ==
    dialogIndex' = IF out = "indexed"
                   THEN [dialogIndex EXCEPT ![req[r].user] = @ + 1]
                   ELSE dialogIndex

PostIndexAdvisor(r) ==
    /\ req[r].kind = "post" /\ req[r].pc = "index_advisor"
    /\ \E out \in {"indexed", "unavailable", "error"} :
          /\ IndexDialog(r, out)
          /\ req' = IF out = "error" THEN Fail(r, 500, "index")
                    ELSE Wrote(Respond(r, 200, "none"), r,
                               IF out = "indexed" THEN {"index"} ELSE {})
    /\ UNCHANGED <<redisUp, now, storeVars, convMemOnly, started, posted, nextPlan, plans,
                   runs, execLog, directVars>>

\* draft_calculator_plan and CalculatorPlan(...): the provider raises, or the
\* structured value has no get or a field fails validation, or a plan is built
PostDraftPlan(r) ==
    /\ req[r].kind = "post" /\ req[r].pc = "draft_plan"
    /\ \/ req' = Fail(r, 500, "provider")
       \/ req' = Fail(r, 500, "plan")
       \/ \E d \in PlanDrafts : req' = [req EXCEPT ![r].pc = "persist", ![r].draft = d]
    /\ UNCHANGED <<redisUp, now, storeVars, convMemOnly, started, posted, nextPlan, plans,
                   runs, execLog, dialogIndex, directVars>>

\* the record stored under plan:{plan_id}
PlanRecord(p, u, d) == [plan_id |-> p, user_id |-> u, tool |-> d.tool, code |-> d.code]

\* plan_id = uuid4(); store.set_json(f"plan:{plan_id}", ..., expire=60 * 30)
PostPersist(r) ==
    /\ req[r].kind = "post" /\ req[r].pc = "persist"
    /\ nextPlan <= MaxPlans
    /\ LET p == nextPlan
           rec == PlanRecord(p, req[r].user, req[r].draft)
       IN /\ redisJson' = set_json_redis(req[r].store, PlanKey(p), rec, PlanTTL)
          /\ memJson' = set_json_mem(req[r].store, PlanKey(p), rec)
          /\ plans' = [plans EXCEPT ![p] =
                          [owner |-> req[r].user,
                           path |-> IF RedisOk(req[r].store) THEN "redis" ELSE "memory",
                           exp |-> now + PlanTTL]]
          /\ req' = [req EXCEPT ![r].pc = "append_plan", ![r].plan = p,
                                ![r].draft = NoneVal,
                                ![r].wrote = @ \cup {"plan"},
                                ![r].store = mark_unavailable(req[r].store)]
    /\ nextPlan' = nextPlan + 1
    /\ UNCHANGED <<redisUp, now, listVars, convMemOnly, started, posted, runs, execLog,
                   dialogIndex, directVars>>

PostAppendPlan(r) ==
    /\ req[r].kind = "post" /\ req[r].pc = "append_plan"
    /\ ConvPush(req[r].user, "assistant")
    /\ req' = Wrote(Respond(r, 200, "none"), r, {"assistant"})
    /\ UNCHANGED <<redisUp, now, jsonVars, started, posted, nextPlan, plans, runs,
                   execLog, dialogIndex, directVars>>

\* history: the plan was persisted in the durable store and its TTL has run out
PlanExpired(p) ==
    plans[p] # NoneVal /\ plans[p].path = "redis" /\ now >= plans[p].exp

StartExec(r, u, p, conc) ==
    /\ CanStart(r, conc)
    /\ req' = [req EXCEPT ![r] = [IdleReq EXCEPT !.kind = "exec", !.user = u, !.plan = p,
                                                 !.pc = "lookup", !.prior = runs[p]]]
    /\ started' = started + 1
    /\ UNCHANGED <<posted, redisUp, now, storeVars, convMemOnly, nextPlan, plans, runs,
                   execLog, dialogIndex, directVars>>

\* store.get_json(key), the two checks, and calculator.run, which follows the
\* lookup without a suspension point
ExecLookup(r) ==
    /\ req[r].kind = "exec" /\ req[r].pc = "lookup"
    /\ LET data == get_json(req[r].store, PlanKey(req[r].plan))
           flag == mark_unavailable(req[r].store)
           stale == PlanExpired(req[r].plan)
       IN IF data = NoneVal
          THEN /\ req' = [Respond(r, 404, "none") EXCEPT ![r].stale = stale]
               /\ UNCHANGED execLog
          ELSE IF ~owner_matches(data, req[r].user)
          THEN /\ req' = [Respond(r, 403, "none") EXCEPT ![r].stale = stale]
               /\ UNCHANGED execLog
          ELSE /\ req' = [req EXCEPT ![r].pc = "draft", ![r].store = flag,
                                     ![r].stale = stale,
                                     ![r].result = calculator_run(data)]
               /\ execLog' = execLog \cup
                     {[kind |-> req[r].kind, user |-> req[r].user,
                       asked |-> req[r].plan, plan |-> data.plan_id]}
    /\ UNCHANGED <<redisUp, now, storeVars, convMemOnly, started, posted, nextPlan, plans,
                   runs, dialogIndex, directVars>>

\* reply_text, tools_used = await orchestrator.draft_calculator_reply(...)
ExecDraft(r) ==
    /\ req[r].kind = "exec" /\ req[r].pc = "draft"
    /\ \/ /\ req' = Fail(r, 500, "provider")
          /\ runs' = NoteRun(r, "provider")
       \/ \E reply \in Replies :
             IF unpack_ok(reply)
             THEN req' = Goto(r, "append") /\ UNCHANGED runs
             ELSE req' = Fail(r, 500, "unpack") /\ runs' = NoteRun(r, "unpack")
    /\ UNCHANGED <<redisUp, now, storeVars, convMemOnly, started, posted, nextPlan, plans,
                   execLog, dialogIndex, directVars>>

ExecAppend(r) ==
    /\ req[r].kind = "exec" /\ req[r].pc = "append"
    /\ ConvPush(req[r].user, "assistant")
    /\ req' = Wrote(Goto(r, "index"), r, {"assistant"})
    /\ UNCHANGED <<redisUp, now, jsonVars, started, posted, nextPlan, plans, runs,
                   execLog, dialogIndex, directVars>>

ExecIndex(r) ==
    /\ req[r].kind = "exec" /\ req[r].pc = "index"
    /\ \E out \in {"indexed", "unavailable", "error"} :
          /\ IndexDialog(r, out)
          /\ IF out = "error"
             THEN req' = Fail(r, 500, "index") /\ runs' = NoteRun(r, "index")
             ELSE /\ req' = Wrote(Goto(r, "delete"), r,
                                  IF out = "indexed" THEN {"index"} ELSE {})
                  /\ UNCHANGED runs
    /\ UNCHANGED <<redisUp, now, storeVars, convMemOnly, started, posted, nextPlan, plans,
                   execLog, directVars>>

\* await store.delete(key), then the response
ExecDelete(r) ==
    /\ req[r].kind = "exec" /\ req[r].pc = "delete"
    /\ redisJson' = delete_redis(req[r].store, PlanKey(req[r].plan))
    /\ memJson' = delete_mem(req[r].store, PlanKey(req[r].plan))
    /\ req' = [Respond(r, 200, "none") EXCEPT ![r].deleted = TRUE,
                                             ![r].wrote = @ \cup {"delete"}]
    /\ runs' = NoteRun(r, "none")
    /\ UNCHANGED <<redisUp, now, listVars, convMemOnly, started, posted, nextPlan, plans,
                   execLog, dialogIndex, directVars>>

StartReset(r, u, conc) ==
    /\ CanStart(r, conc)
    /\ req' = [req EXCEPT ![r] = [IdleReq EXCEPT !.kind = "reset", !.user = u,
                                                 !.pc = "delete_dialog"]]
    /\ started' = started + 1
    /\ UNCHANGED <<posted, redisUp, now, storeVars, convMemOnly, nextPlan, plans, runs,
                   execLog, dialogIndex, directVars>>

\* reset_context: store.delete(f"dialog:{user_id}") on the request's own store
ResetDelete(r) ==
    /\ req[r].kind = "reset" /\ req[r].pc = "delete_dialog"
    /\ redisLists' = delete_list_redis(req[r].store, req[r].user)
    /\ memLists' = delete_list_mem(req[r].store, req[r].user)
    /\ req' = Wrote(Respond(r, 200, "none"), r, {"delete"})
    /\ UNCHANGED <<redisUp, now, jsonVars, convMemOnly, started, posted, nextPlan, plans,
                   runs, execLog, dialogIndex, directVars>>

\* the response has been sent: nothing of the request remains in the process
Close(r) ==
    /\ Finished(r)
    /\ req' = [req EXCEPT ![r] = IdleReq]
    /\ UNCHANGED <<redisUp, now, storeVars, convMemOnly, started, posted, nextPlan, plans,
                   runs, execLog, dialogIndex, directVars>>

\* ------------------------------------------- direct calls of the wrapper
\* which path serves a call issued now on an instance with this flag
PathOf(flag) == IF RedisOk(flag) THEN "redis" ELSE "memory"

\* the last completed set_json of a key, unless its TTL has run out
LiveSet(key) ==
    IF lastSet[key] # NoneVal /\ lastSet[key].exp # NoExpire /\ now >= lastSet[key].exp
    THEN NoneVal
    ELSE lastSet[key]

\* the call ends with the exception of the durable call: no fallback, no flag
RaisedCall(i, op, key) ==
    /\ lastCall' = [op |-> op, inst |-> i, key |-> key, ret |-> NoneVal,
                    path |-> "raised", want |-> NoneVal, failed |-> TRUE]
    /\ UNCHANGED <<storeVars, instMemOnly, degraded, lateAttempt, lastSet>>

CallSetJson(i, key, value, expire) ==
    /\ calls < MaxCalls
    /\ \E exc \in StoreErrors :
        IF escapes(instMemOnly[i], exc) THEN RaisedCall(i, "set", key)
        ELSE
        /\ redisJson' = set_json_redis(instMemOnly[i], key, value, expire)
        /\ memJson' = set_json_mem(instMemOnly[i], key, value)
        /\ instMemOnly' = [instMemOnly EXCEPT ![i] = mark_unavailable(@)]
        /\ Observe(instMemOnly[i])
        /\ lastSet' = [lastSet EXCEPT ![key] =
                          [value |-> value, path |-> PathOf(instMemOnly[i]),
                           exp |-> IF RedisOk(instMemOnly[i]) /\ expire # NoExpire
                                   THEN now + expire ELSE NoExpire,
                           down |-> ~redisUp]]
        /\ lastCall' = [op |-> "set", inst |-> i, key |-> key, ret |-> NoneVal,
                        path |-> PathOf(instMemOnly[i]), want |-> NoneVal,
                        failed |-> RedisFails(instMemOnly[i])]
        /\ UNCHANGED listVars
    /\ calls' = calls + 1
    /\ UNCHANGED <<redisUp, now, chatVars, dialogVars, toolVars>>

CallGetJson(i, key) ==
    /\ calls < MaxCalls
    /\ \E exc \in StoreErrors :
        IF escapes(instMemOnly[i], exc) THEN RaisedCall(i, "get", key)
        ELSE
        /\ instMemOnly' = [instMemOnly EXCEPT ![i] = mark_unavailable(@)]
        /\ Observe(instMemOnly[i])
        /\ lastCall' = [op |-> "get", inst |-> i, key |-> key,
                        ret |-> get_json(instMemOnly[i], key),
                        path |-> PathOf(instMemOnly[i]), want |-> LiveSet(key),
                        failed |-> RedisFails(instMemOnly[i])]
        /\ UNCHANGED <<storeVars, lastSet>>
    /\ calls' = calls + 1
    /\ UNCHANGED <<redisUp, now, chatVars, dialogVars, toolVars>>

CallDelete(i, key) ==
    /\ calls < MaxCalls
    /\ \E exc \in StoreErrors :
        IF escapes(instMemOnly[i], exc) THEN RaisedCall(i, "delete", key)
        ELSE
        /\ redisJson' = delete_redis(instMemOnly[i], key)
        /\ memJson' = delete_mem(instMemOnly[i], key)
        /\ instMemOnly' = [instMemOnly EXCEPT ![i] = mark_unavailable(@)]
        /\ Observe(instMemOnly[i])
        /\ lastSet' = [lastSet EXCEPT ![key] = NoneVal]
        /\ lastCall' = [op |-> "delete", inst |-> i, key |-> key, ret |-> NoneVal,
                        path |-> PathOf(instMemOnly[i]), want |-> NoneVal,
                        failed |-> RedisFails(instMemOnly[i])]
        /\ UNCHANGED listVars
    /\ calls' = calls + 1
    /\ UNCHANGED <<redisUp, now, chatVars, dialogVars, toolVars>>

\* the patterns asked of keys(): f"doc:*" as in the documents router, the
\* longer namespace, and everything
Patterns == {<<"d", "o", "c", ":", "*">>, <<"d", "o", "c", "s", ":", "*">>, <<"*">>}

CallKeys(i, pattern) ==
    /\ calls < MaxCalls
    /\ \E exc \in StoreErrors :
        IF escapes(instMemOnly[i], exc) THEN RaisedCall(i, "keys", pattern)
        ELSE
        /\ instMemOnly' = [instMemOnly EXCEPT ![i] = mark_unavailable(@)]
        /\ Observe(instMemOnly[i])
        /\ lastCall' = [op |-> "keys", inst |-> i, key |-> pattern,
                        ret |-> keys(instMemOnly[i], pattern),
                        path |-> PathOf(instMemOnly[i]), want |-> NoneVal,
                        failed |-> RedisFails(instMemOnly[i])]
        /\ UNCHANGED <<storeVars, lastSet>>
    /\ calls' = calls + 1
    /\ UNCHANGED <<redisUp, now, chatVars, dialogVars, toolVars>>


\* ------------------------------- push_dialog / fetch_dialog / delete calls
\* Calls on the dialog list of a user, by callers that run together.  The
\* in-memory branch is taken apart into its steps: the lock is acquired, the
\* list is read, the list is written and the lock released.
Tasks == 1..MaxConc
Limits == {0, 1, 2}

IdleTask ==
    [op |-> "idle", pc |-> "idle", inst |-> 1, user |-> "A", limit |-> 0, msg |-> 0,
     length |-> 0, snap |-> <<>>, ret |-> <<>>, path |-> "none", failed |-> FALSE,
     seen |-> <<>>, snapOk |-> TRUE, want |-> <<>>, wantDel |-> "none"]

Running(t) == task[t].pc \notin {"idle", "done", "raised"}

Max(a, b) == IF a >= b THEN a ELSE b
Min(a, b) == IF a <= b THEN a ELSE b

\* faulty variant: the first items instead of the last
py_head(items, limit) == SubSeq(items, 1, Min(limit, Len(items)))

\* items[-limit:]
py_tail(items, limit) ==
    IF limit = 0 THEN items
    ELSE IF limit > 0 THEN SubSeq(items, Max(Len(items) - limit, 0) + 1, Len(items))
    ELSE SubSeq(items, Min(0 - limit, Len(items)) + 1, Len(items))

\* LRANGE key start -1, start >= 0
lrange(items, start) == SubSeq(items, start + 1, Len(items))

\* faulty variant: the lock is handed out while it is held
lock_free_always(lock) == TRUE

\* asyncio.Lock: acquire() returns once the lock is not held
lock_free(lock) == lock = 0

TaskDone(t, path) ==
    [task EXCEPT ![t].pc = "done", ![t].path = path]

TaskStart(t, op, i, u, limit, conc) ==
    /\ calls < MaxCalls
    /\ ~Running(t)
    /\ \A q \in Tasks : q < t => Running(q)
    /\ Cardinality({q \in Tasks : Running(q)}) < conc
    /\ task' = [task EXCEPT ![t] =
                   [IdleTask EXCEPT !.op = op, !.pc = "call", !.inst = i, !.user = u,
                                    !.limit = IF op = "fetch" THEN limit ELSE 0,
                                    !.msg = IF op = "push" THEN nextMsg ELSE 0]]
    /\ nextMsg' = IF op = "push" THEN nextMsg + 1 ELSE nextMsg
    /\ calls' = calls + 1
    /\ UNCHANGED <<redisUp, now, storeVars, chatVars, degraded, lateAttempt,
                   instMemOnly, lastCall, lastSet, memLock, pushLog, memLog,
                   lastDel, toolVars>>

\* the durable call of a task failed and was caught: the flag is set and the
\* in-memory branch follows
ToMemory(t) ==
    /\ instMemOnly' = [instMemOnly EXCEPT ![task[t].inst] = mark_unavailable(@)]
    /\ task' = [task EXCEPT ![t].pc = "lock",
                            ![t].failed = @ \/ RedisFails(instMemOnly[task[t].inst])]

TaskRaised(t) ==
    /\ task' = [task EXCEPT ![t].pc = "raised", ![t].failed = TRUE]
    /\ UNCHANGED instMemOnly

\* push_dialog up to the durable call: RPUSH key payload
PushCall(t) ==
    /\ task[t].op = "push" /\ task[t].pc = "call"
    /\ LET flag == instMemOnly[task[t].inst]
           u == task[t].user
       IN \E exc \in StoreErrors :
          IF escapes(flag, exc)
          THEN TaskRaised(t) /\ UNCHANGED <<redisLists, pushLog>>
          ELSE IF RedisOk(flag)
          THEN /\ redisLists' = [redisLists EXCEPT ![u] = Append(@, task[t].msg)]
               /\ pushLog' = [pushLog EXCEPT ![u] =
                                  Append(@, [msg |-> task[t].msg, path |-> "redis"])]
               /\ task' = TaskDone(t, "redis")
               /\ UNCHANGED instMemOnly
          ELSE ToMemory(t) /\ UNCHANGED <<redisLists, pushLog>>
    /\ UNCHANGED <<redisUp, now, jsonVars, memLists, chatVars, degraded, lateAttempt,
                   lastCall, lastSet, calls, memLock, memLog, lastDel, nextMsg,
                   toolVars>>

\* async with _memory_lock
Acquire(t) ==
    /\ task[t].pc = "lock"
    /\ lock_free(memLock)
    /\ memLock' = t
    /\ task' = [task EXCEPT ![t].pc = "crit"]
    /\ UNCHANGED <<redisUp, now, storeVars, chatVars, degraded, lateAttempt,
                   instMemOnly, lastCall, lastSet, calls, pushLog, memLog, lastDel,
                   nextMsg, toolVars>>

\* _memory_lists[key]: the list is read
PushRead(t) ==
    /\ task[t].op = "push" /\ task[t].pc = "crit"
    /\ task' = [task EXCEPT ![t].pc = "write", ![t].snap = memLists[task[t].user]]
    /\ UNCHANGED <<redisUp, now, storeVars, chatVars, degraded, lateAttempt,
                   instMemOnly, lastCall, lastSet, calls, memLock, pushLog, memLog,
                   lastDel, nextMsg, toolVars>>

\* .append(payload), and the lock is released
PushWrite(t) ==
    /\ task[t].op = "push" /\ task[t].pc = "write"
    /\ LET u == task[t].user
       IN /\ memLists' = [memLists EXCEPT ![u] = Append(task[t].snap, task[t].msg)]
          /\ pushLog' = [pushLog EXCEPT ![u] =
                             Append(@, [msg |-> task[t].msg, path |-> "memory"])]
          /\ memLog' = [memLog EXCEPT ![u] = Append(@, task[t].msg)]
    /\ memLock' = 0
    /\ task' = [TaskDone(t, "memory") EXCEPT ![t].snap = <<>>]
    /\ UNCHANGED <<redisUp, now, jsonVars, redisLists, chatVars, degraded,
                   lateAttempt, instMemOnly, lastCall, lastSet, calls, lastDel,
                   nextMsg, toolVars>>

\* fetch_dialog, first durable call: LLEN key
FetchLlen(t) ==
    /\ task[t].op = "fetch" /\ task[t].pc = "call"
    /\ LET flag == instMemOnly[task[t].inst]
       IN \E exc \in StoreErrors :
          IF escapes(flag, exc) THEN TaskRaised(t)
          ELSE IF RedisOk(flag)
          THEN /\ task' = [task EXCEPT ![t].pc = "lrange",
                                       ![t].length = Len(redisLists[task[t].user])]
               /\ UNCHANGED instMemOnly
          ELSE ToMemory(t)
    /\ UNCHANGED <<redisUp, now, storeVars, chatVars, degraded, lateAttempt,
                   lastCall, lastSet, calls, memLock, pushLog, memLog, lastDel,
                   nextMsg, toolVars>>

\* fetch_dialog, second durable call, inside the same try:
\* start = max(length - limit, 0); LRANGE key start -1
FetchLrange(t) ==
    /\ task[t].op = "fetch" /\ task[t].pc = "lrange"
    /\ LET u == task[t].user
           start == Max(task[t].length - task[t].limit, 0)
       IN \E exc \in StoreErrors :
          IF redisUp
          THEN /\ task' = [TaskDone(t, "redis") EXCEPT
                              ![t].ret = lrange(redisLists[u], start),
                              ![t].want = pushLog[u], ![t].wantDel = lastDel[u]]
               /\ UNCHANGED instMemOnly
          ELSE IF catches(exc)
          THEN /\ instMemOnly' = [instMemOnly EXCEPT ![task[t].inst] = TRUE]
               /\ task' = [task EXCEPT ![t].pc = "lock", ![t].failed = TRUE]
          ELSE TaskRaised(t)
    /\ UNCHANGED <<redisUp, now, storeVars, chatVars, degraded, lateAttempt,
                   lastCall, lastSet, calls, memLock, pushLog, memLog, lastDel,
                   nextMsg, toolVars>>

\* fetch_dialog under the lock: _memory_lists.get(key, [])[-limit:]
FetchCrit(t) ==
    /\ task[t].op = "fetch" /\ task[t].pc = "crit"
    /\ LET u == task[t].user
       IN task' = [TaskDone(t, "memory") EXCEPT
                      ![t].ret = py_tail(memLists[u], task[t].limit),
                      ![t].seen = memLists[u],
                      ![t].snapOk = (memLists[u] = memLog[u]),
                      ![t].want = pushLog[u], ![t].wantDel = lastDel[u]]
    /\ memLock' = 0
    /\ UNCHANGED <<redisUp, now, storeVars, chatVars, degraded, lateAttempt,
                   instMemOnly, lastCall, lastSet, calls, pushLog, memLog, lastDel,
                   nextMsg, toolVars>>

\* delete(f"dialog:{user_id}") up to the durable call: DEL key
DeleteCall(t) ==
    /\ task[t].op = "delete" /\ task[t].pc = "call"
    /\ LET flag == instMemOnly[task[t].inst]
           u == task[t].user
       IN \E exc \in StoreErrors :
          IF escapes(flag, exc)
          THEN TaskRaised(t) /\ UNCHANGED <<redisLists, pushLog, lastDel>>
          ELSE IF RedisOk(flag)
          THEN /\ redisLists' = [redisLists EXCEPT ![u] = <<>>]
               /\ pushLog' = [pushLog EXCEPT ![u] = <<>>]
               /\ lastDel' = [lastDel EXCEPT ![u] = "redis"]
               /\ task' = TaskDone(t, "redis")
               /\ UNCHANGED instMemOnly
          ELSE ToMemory(t) /\ UNCHANGED <<redisLists, pushLog, lastDel>>
    /\ UNCHANGED <<redisUp, now, jsonVars, memLists, chatVars, degraded, lateAttempt,
                   lastCall, lastSet, calls, memLock, memLog, nextMsg, toolVars>>

\* delete under the lock: _memory_json.pop(key, None); _memory_lists.pop(key, None)
\* (a dialog key is never a key of _memory_json)
DeleteCrit(t) ==
    /\ task[t].op = "delete" /\ task[t].pc = "crit"
    /\ LET u == task[t].user
       IN /\ memLists' = [memLists EXCEPT ![u] = <<>>]
          /\ pushLog' = [pushLog EXCEPT ![u] = <<>>]
          /\ memLog' = [memLog EXCEPT ![u] = <<>>]
          /\ lastDel' = [lastDel EXCEPT ![u] = "memory"]
    /\ memLock' = 0
    /\ task' = TaskDone(t, "memory")
    /\ UNCHANGED <<redisUp, now, jsonVars, redisLists, chatVars, degraded,
                   lateAttempt, instMemOnly, lastCall, lastSet, calls, nextMsg,
                   toolVars>>

TaskSteps(t) ==
    \/ PushCall(t) \/ Acquire(t) \/ PushRead(t) \/ PushWrite(t)
    \/ FetchLlen(t) \/ FetchLrange(t) \/ FetchCrit(t)
    \/ DeleteCall(t) \/ DeleteCrit(t)

TaskArrivals(conc) ==
    \E t \in Tasks, i \in Insts, u \in Users :
        \/ TaskStart(t, "push", i, u, 0, conc)
        \/ \E limit \in Limits : TaskStart(t, "fetch", i, u, limit, conc)
        \/ TaskStart(t, "delete", i, u, 0, conc)

\* ------------------------------------------------- generation client
\* the fields of the plan schema
PlanFields == {"description", "variables", "formulas", "suggested_tool", "followups"}

\* a key of a JSON object, as CalculatorPlan sees its value: absent, of the
\* type the field declares (str, dict, list[str]), or of another JSON type
\* (null included)
FieldStates == {"absent", "ok", "bad"}

EmptyFields == [f \in PlanFields |-> "absent"]

\* what json.loads / ast.literal_eval can yield
JsonTypes == {"object", "array", "string", "number", "null"}

JsonValues ==
    {[type |-> "object", fields |-> fs] : fs \in [PlanFields -> FieldStates]}
    \cup {[type |-> t, fields |-> EmptyFields] : t \in JsonTypes \ {"object"}}

EmptyObject == [type |-> "object", fields |-> EmptyFields]

\* message.content of a completion:
\*   json     a JSON text
\*   fenced   a JSON text between ``` fences, with or without the word json
\*   literal  a Python literal that is not JSON ({'a': 1}, None, (1, 2))
\*   text     neither
\*   empty    None, "", or a list of parts without text
Contents ==
    {[form |-> f, value |-> v] : f \in {"json", "fenced", "literal"}, v \in JsonValues}
    \cup {[form |-> f, value |-> EmptyObject] : f \in {"text", "empty"}}

\* content = content or "{}"
or_empty_object(content) ==
    IF content.form = "empty" THEN [form |-> "json", value |-> EmptyObject] ELSE content

\* if content.startswith("```"): the fences and a leading "json" are stripped
strip_fences(content) ==
    IF content.form = "fenced" THEN [content EXCEPT !.form = "json"] ELSE content

\* json.loads(content): returned as parsed; on JSONDecodeError
\* ast.literal_eval(content), returned when it is a dict; otherwise {}
parse_structured(content) ==
    LET c == strip_fences(or_empty_object(content))
    IN IF c.form = "json" THEN c.value
       ELSE IF c.form = "literal" /\ c.value.type = "object" THEN c.value
       ELSE EmptyObject

\* response.get(...) of draft_calculator_plan: defined on a dict only
has_get(response) == response.type = "object"

\* {"description": response.get("description", ""), ...}: the default stands
\* in for an absent key, not for a value of another type
plan_raw(response) ==
    [f \in PlanFields |-> IF response.fields[f] = "absent" THEN "ok"
                          ELSE response.fields[f]]

\* CalculatorPlan(...): pydantic validates every field against its type
plan_validates(raw) == \A f \in PlanFields : raw[f] = "ok"

\* the operations of the client and of the orchestrator on top of it
GenOps == {"content", "structured", "plan"}

IdleGen ==
    [pc |-> "idle", op |-> "none", sent |-> 0, content |-> NoneVal,
     result |-> NoneVal, error |-> "none"]

\* a logical call starts: generate_content, generate_structured, or
\* draft_calculator_plan followed by the construction of the plan
GenStart(op) ==
    /\ gen.pc = "idle"
    /\ gen' = [IdleGen EXCEPT !.pc = "first", !.op = op]
    /\ UNCHANGED <<redisUp, now, storeVars, chatVars, degraded, lateAttempt, instMemOnly,
                   lastCall, lastSet, calls, dialogVars, sandboxVars, botVars, run, kbVars, intgVars>>

\* chat.completions.create (response_format json_schema for the structured
\* call): it answers with a content or raises OpenAIError
GenFirst ==
    /\ gen.pc = "first"
    /\ \/ \E c \in Contents :
             gen' = IF gen.op = "content"
                    THEN [gen EXCEPT !.pc = "done", !.sent = @ + 1, !.content = c]
                    ELSE [gen EXCEPT !.pc = "parse", !.sent = @ + 1, !.content = c]
       \/ gen' = IF gen.op = "content"
                 THEN [gen EXCEPT !.pc = "done", !.sent = @ + 1, !.error = "OpenAIError"]
                 ELSE [gen EXCEPT !.pc = "second", !.sent = @ + 1]
    /\ UNCHANGED <<redisUp, now, storeVars, chatVars, degraded, lateAttempt, instMemOnly,
                   lastCall, lastSet, calls, dialogVars, sandboxVars, botVars, run, kbVars, intgVars>>

\* except OpenAIError: chat.completions.create with the same messages and
\* response_format json_object
GenSecond ==
    /\ gen.pc = "second"
    /\ \/ \E c \in Contents :
             gen' = [gen EXCEPT !.pc = "parse", !.sent = @ + 1, !.content = c]
       \/ gen' = [gen EXCEPT !.pc = "done", !.sent = @ + 1, !.error = "OpenAIError"]
    /\ UNCHANGED <<redisUp, now, storeVars, chatVars, degraded, lateAttempt, instMemOnly,
                   lastCall, lastSet, calls, dialogVars, sandboxVars, botVars, run, kbVars, intgVars>>

\* the content is parsed; draft_calculator_plan then reads the fields and
\* post_message constructs the CalculatorPlan
GenParse ==
    /\ gen.pc = "parse"
    /\ LET response == parse_structured(gen.content)
       IN gen' =
            IF gen.op = "structured"
            THEN [gen EXCEPT !.pc = "done", !.result = response]
            ELSE IF ~has_get(response)
            THEN [gen EXCEPT !.pc = "done", !.error = "AttributeError"]
            ELSE IF ~plan_validates(plan_raw(response))
            THEN [gen EXCEPT !.pc = "done", !.error = "ValidationError"]
            ELSE [gen EXCEPT !.pc = "done", !.result = response]
    /\ UNCHANGED <<redisUp, now, storeVars, chatVars, degraded, lateAttempt, instMemOnly,
                   lastCall, lastSet, calls, dialogVars, sandboxVars, botVars, run, kbVars, intgVars>>

\* the call has returned or raised
GenClose ==
    /\ gen.pc = "done"
    /\ gen' = IdleGen
    /\ UNCHANGED <<redisUp, now, storeVars, chatVars, degraded, lateAttempt, instMemOnly,
                   lastCall, lastSet, calls, dialogVars, sandboxVars, botVars, run, kbVars, intgVars>>

\* ------------------------------------------- knowledge retrieval facade
\* settings.opensearch_index and settings.opensearch_chat_index, in the order
\* ensure_indices visits them
IndexOrder == <<"documents", "dialogs">>
Indices == {"documents", "dialogs"}

Sources == {"s1", "s2"}
DialogIds == {"g1", "g2"}
Queries == {"q"}

\* f"{source.id}:{idx}"
chunk_id(source, idx) == [source |-> source, idx |-> idx]

\* enumerate(chunks) counts from 0
ChunkIndexes(n) == 0..(n - 1)

\* faulty variant: the index is created without asking whether it exists
needs_create_always(exists) == TRUE

\* if not exists
needs_create(exists) == ~exists

IdleBoot ==
    [pc |-> "idle", pos |-> 1, n |-> 0, sawAll |-> FALSE, asked |-> {},
     raised |-> FALSE, ready |-> FALSE]

\* the index has been handled: the loop moves on, or ensure_indices returns
boot_advance(b) ==
    IF b.pos = Len(IndexOrder)
    THEN [b EXCEPT !.pc = "done", !.ready = TRUE]
    ELSE [b EXCEPT !.pc = "exists", !.pos = @ + 1]

\* lifespan: knowledge_base.initialize(), once each time the process starts
BootStart ==
    /\ boot.pc = "idle"
    /\ boot.n < MaxBoots
    /\ kbCall.pc = "idle"
    /\ boot' = [IdleBoot EXCEPT !.pc = "exists", !.n = boot.n + 1,
                                !.sawAll = \A i \in Indices : kb.exists[i]]
    /\ UNCHANGED <<redisUp, now, storeVars, chatVars, degraded, lateAttempt, instMemOnly,
                   lastCall, lastSet, calls, dialogVars, sandboxVars, botVars, run, gen, kb, kbCall, intgVars>>

\* exists = await self._client.indices.exists(index=index_name)
BootExists ==
    /\ boot.pc = "exists"
    /\ LET i == IndexOrder[boot.pos]
       IN \/ boot' = IF needs_create(kb.exists[i])
                     THEN [boot EXCEPT !.pc = "create"]
                     ELSE boot_advance(boot)
          \/ boot' = [boot EXCEPT !.pc = "done", !.raised = TRUE]
    /\ UNCHANGED <<redisUp, now, storeVars, chatVars, degraded, lateAttempt, instMemOnly,
                   lastCall, lastSet, calls, dialogVars, sandboxVars, botVars, run, gen, kb, kbCall, intgVars>>

\* await self._client.indices.create(...): the server refuses to create an
\* index that exists, and may not answer at all
BootCreate ==
    /\ boot.pc = "create"
    /\ LET i == IndexOrder[boot.pos]
           asked == [boot EXCEPT !.asked = @ \cup {i}]
       IN \/ /\ kb' = IF kb.exists[i] THEN kb
                      ELSE [kb EXCEPT !.exists[i] = TRUE, !.creates[i] = @ + 1]
             /\ boot' = IF kb.exists[i]
                        THEN [asked EXCEPT !.pc = "done", !.raised = TRUE]
                        ELSE boot_advance(asked)
          \/ /\ kb' = kb
             /\ boot' = [asked EXCEPT !.pc = "done", !.raised = TRUE]
    /\ UNCHANGED <<redisUp, now, storeVars, chatVars, degraded, lateAttempt, instMemOnly,
                   lastCall, lastSet, calls, dialogVars, sandboxVars, botVars, run, gen, kbCall, intgVars>>

\* initialize has returned, or the process that called it is gone
BootClose ==
    /\ boot.pc = "done"
    /\ boot' = [boot EXCEPT !.pc = "idle"]
    /\ UNCHANGED <<redisUp, now, storeVars, chatVars, degraded, lateAttempt, instMemOnly,
                   lastCall, lastSet, calls, dialogVars, sandboxVars, botVars, run, gen, kb, kbCall, intgVars>>

\* app.state.knowledge_base is set after initialize has returned
KbServing == boot.pc = "idle" /\ boot.ready

IdleKbCall ==
    [pc |-> "idle", op |-> "none", arg |-> "none", n |-> 0, idx |-> 0,
     embedded |-> {}, failed |-> {}, indexed_any |-> FALSE, ret |-> NoneVal,
     raised |-> FALSE, before |-> {}]

\* KnowledgeSearchResponse(hits=[], query=query, embedding_available=False)
NoHits(query) == [hits |-> {}, query |-> query, embedding_available |-> FALSE]

\* faulty variant: EmbeddingServiceUnavailable is not caught by search and
\* index_dialog
embedding_unavailable_raises(c) == [c EXCEPT !.pc = "done", !.raised = TRUE]

\* except EmbeddingServiceUnavailable, in search and in index_dialog
embedding_unavailable(c) ==
    IF c.op = "search"
    THEN [c EXCEPT !.pc = "done", !.ret = NoHits(c.arg)]
    ELSE [c EXCEPT !.pc = "done", !.ret = [value |-> FALSE]]

\* faulty variant: the first chunk whose embedding fails ends the loop
skip_chunk_breaks(c) == [c EXCEPT !.idx = c.n]

\* except EmbeddingServiceUnavailable in ingest: continue
skip_chunk(c) == [c EXCEPT !.idx = @ + 1]

\* search(query), index_dialog(dialog_id, ...), ingest(source, chunks)
KbStart(op, arg, n) ==
    /\ KbServing
    /\ kbCall.pc = "idle"
    /\ kbCall' = [IdleKbCall EXCEPT
                     !.pc = IF op = "ingest" THEN "loop" ELSE "embed",
                     !.op = op, !.arg = arg, !.n = n,
                     !.before = IF op = "ingest" THEN kb.documents ELSE kb.dialogs]
    /\ UNCHANGED <<redisUp, now, storeVars, chatVars, degraded, lateAttempt, instMemOnly,
                   lastCall, lastSet, calls, dialogVars, sandboxVars, botVars, run, gen, kb, boot, intgVars>>

\* for idx, chunk in enumerate(chunks): the next chunk, or return indexed_any
KbLoop ==
    /\ kbCall.pc = "loop"
    /\ kbCall' = IF kbCall.idx < kbCall.n
                 THEN [kbCall EXCEPT !.pc = "embed"]
                 ELSE [kbCall EXCEPT !.pc = "done",
                                     !.ret = [value |-> kbCall.indexed_any]]
    /\ UNCHANGED <<redisUp, now, storeVars, chatVars, degraded, lateAttempt, instMemOnly,
                   lastCall, lastSet, calls, dialogVars, sandboxVars, botVars, run, gen, kb, boot, intgVars>>

\* embed_text: a vector, or EmbeddingServiceUnavailable
KbEmbed ==
    /\ kbCall.pc = "embed"
    /\ \E ok \in BOOLEAN :
          kbCall' =
             IF ok
             THEN [kbCall EXCEPT !.pc = "store", !.embedded = @ \cup {kbCall.idx}]
             ELSE IF kbCall.op = "ingest"
             THEN [skip_chunk(kbCall) EXCEPT !.pc = "loop",
                                             !.failed = @ \cup {kbCall.idx}]
             ELSE [embedding_unavailable(kbCall) EXCEPT !.failed = {kbCall.idx}]
    /\ UNCHANGED <<redisUp, now, storeVars, chatVars, degraded, lateAttempt, instMemOnly,
                   lastCall, lastSet, calls, dialogVars, sandboxVars, botVars, run, gen, kb, boot, intgVars>>

\* the call of the vector index: _store.search, upsert_dialog or
\* upsert_document; an error of the index is not caught
KbStore ==
    /\ kbCall.pc = "store"
    /\ \/ /\ kbCall.op = "search"
          /\ kb' = kb
          /\ kbCall' = [kbCall EXCEPT !.pc = "done",
                           !.ret = [hits |-> kb.documents, query |-> kbCall.arg,
                                    embedding_available |-> TRUE]]
       \/ /\ kbCall.op = "index_dialog"
          /\ kb' = [kb EXCEPT !.dialogs = @ \cup {kbCall.arg}]
          /\ kbCall' = [kbCall EXCEPT !.pc = "done", !.ret = [value |-> TRUE]]
       \/ /\ kbCall.op = "ingest"
          /\ kb' = [kb EXCEPT !.documents = @ \cup {chunk_id(kbCall.arg, kbCall.idx)}]
          /\ kbCall' = [kbCall EXCEPT !.pc = "loop", !.idx = @ + 1,
                                      !.indexed_any = TRUE]
       \/ /\ kb' = kb
          /\ kbCall' = [kbCall EXCEPT !.pc = "done", !.raised = TRUE]
    /\ UNCHANGED <<redisUp, now, storeVars, chatVars, degraded, lateAttempt, instMemOnly,
                   lastCall, lastSet, calls, dialogVars, sandboxVars, botVars, run, gen, boot, intgVars>>

\* the call has returned or raised
KbClose ==
    /\ kbCall.pc = "done"
    /\ kbCall' = IdleKbCall
    /\ UNCHANGED <<redisUp, now, storeVars, chatVars, degraded, lateAttempt, instMemOnly,
                   lastCall, lastSet, calls, dialogVars, sandboxVars, botVars, run, gen, kb, boot, intgVars>>

\* ------------------------------------------------- integration router
\* company names submitted with a profile: "" stands for a blank name
CompanyNames == {"", "acme"}

\* user_id and str(user_id).lstrip("-+ ").isdigit(): A is a Telegram chat id,
\* B is an id that is not numeric
is_chat_id(u) == u = "A"

\* what the steps after the checks may raise: the import of bot.utils, int()
\* and bot.send_message
NotifyErrors == {"ImportError", "ValueError", "TelegramAPIError"}

\* faulty variant: except TelegramAPIError
notify_catches_telegram_only(exc) == exc = "TelegramAPIError"

\* except Exception
notify_catches(exc) == exc \in NotifyErrors

\* the record the handler writes and the notification must leave alone
RecordKey(c) == IF c.op = "profile" THEN ProfileKey(c.user) ELSE IntegrationKey(c.user)

\* what both paths of the store hold for the key
Stored(key) == <<redisJson[key], memJson[key]>>

IdleIntg ==
    [pc |-> "idle", op |-> "none", user |-> "A", name |-> "", store |-> FALSE,
     status |-> 0, wrote |-> FALSE, notif |-> "none", escaped |-> FALSE,
     snap |-> NoneVal, tstore |-> FALSE, indexed_any |-> FALSE, raised |-> FALSE]

\* POST /integration/profile and POST /integration/alpha-business; Depends
\* builds a new RedisStore
IntgStart(op, u, name) ==
    /\ intg.pc = "idle"
    /\ intg' = [IdleIntg EXCEPT !.pc = "write", !.op = op, !.user = u, !.name = name]
    /\ UNCHANGED <<redisUp, now, storeVars, chatVars, degraded, lateAttempt, instMemOnly,
                   lastCall, lastSet, calls, dialogVars, sandboxVars, botVars, run, gen, kbVars>>

\* save_company_profile refuses a blank company name; otherwise
\* store.set_json(key, payload) of the record
IntgWrite ==
    /\ intg.pc = "write"
    /\ IF intg.op = "profile" /\ intg.name = ""
       THEN /\ intg' = [intg EXCEPT !.pc = "done", !.status = 422]
            /\ UNCHANGED jsonVars
       ELSE LET key == RecordKey(intg)
                value == IF intg.op = "profile" THEN [company_name |-> intg.name]
                         ELSE [status |-> "connected"]
            IN /\ redisJson' = set_json_redis(intg.store, key, value, NoExpire)
               /\ memJson' = set_json_mem(intg.store, key, value)
               /\ intg' = [intg EXCEPT
                              !.pc = IF intg.op = "profile" THEN "write_status"
                                     ELSE "respond",
                              !.wrote = TRUE,
                              !.store = mark_unavailable(intg.store)]
    /\ UNCHANGED <<redisUp, now, listVars, chatVars, degraded, lateAttempt, instMemOnly,
                   lastCall, lastSet, calls, dialogVars, sandboxVars, botVars, run, gen, kbVars>>

\* store.set_json(f"profile-index-status:{user_id}", {"status": "queued", ...})
IntgWriteStatus ==
    /\ intg.pc = "write_status"
    /\ redisJson' = set_json_redis(intg.store, StatusKey(intg.user),
                                   [status |-> "queued"], NoExpire)
    /\ memJson' = set_json_mem(intg.store, StatusKey(intg.user), [status |-> "queued"])
    /\ intg' = [intg EXCEPT !.pc = "respond", !.store = mark_unavailable(intg.store)]
    /\ UNCHANGED <<redisUp, now, listVars, chatVars, degraded, lateAttempt, instMemOnly,
                   lastCall, lastSet, calls, dialogVars, sandboxVars, botVars, run, gen, kbVars>>

\* background_tasks.add_task(...) and the return: the tasks run after the
\* response, in the order they were added
IntgRespond ==
    /\ intg.pc = "respond"
    /\ intg' = [intg EXCEPT !.pc = IF intg.op = "profile" THEN "index" ELSE "check",
                            !.status = 200, !.notif = "scheduled",
                            !.snap = Stored(RecordKey(intg))]
    /\ UNCHANGED <<redisUp, now, storeVars, chatVars, degraded, lateAttempt, instMemOnly,
                   lastCall, lastSet, calls, dialogVars, sandboxVars, botVars, run, gen, kbVars>>

\* what one knowledge_base.index_dialog call of the task does: it stores the
\* representation, returns False (embedding unavailable), or raises
IndexOutcomes == {"indexed", "unavailable", "error"}

Representations == 1..MaxRepresentations

\* the status the task ends with: "failed" from the outer except, "failed"
\* when not indexed_any, "indexed" otherwise
final_status(indexed_any, raised) ==
    IF raised THEN "failed" ELSE IF indexed_any THEN "indexed" ELSE "failed"

\* store.set_json(status_key, value) on the RedisStore of the task
TaskStatusWrite(value) ==
    /\ redisJson' = set_json_redis(intg.tstore, StatusKey(intg.user), value, NoExpire)
    /\ memJson' = set_json_mem(intg.tstore, StatusKey(intg.user), value)

\* _index_profile_background starts: store = RedisStore(), then
\* set_json(status_key, {"status": "processing", ...})
IntgIndex ==
    /\ intg.pc = "index"
    /\ TaskStatusWrite([status |-> "processing"])
    /\ intg' = [intg EXCEPT !.pc = "index_docs",
                            !.tstore = mark_unavailable(intg.tstore)]
    /\ UNCHANGED <<redisUp, now, listVars, chatVars, degraded, lateAttempt, instMemOnly,
                   lastCall, lastSet, calls, dialogVars, sandboxVars, botVars, run, gen, kbVars>>

\* the loop over the representations: an index_dialog call that raises is
\* logged and the loop goes on; anything else raised inside the try reaches
\* the outer except
IntgIndexDocs ==
    /\ intg.pc = "index_docs"
    /\ \/ \E outs \in [Representations -> IndexOutcomes] :
             intg' = [intg EXCEPT !.pc = "index_end",
                                  !.indexed_any = \E n \in Representations :
                                                     outs[n] = "indexed"]
       \/ intg' = [intg EXCEPT !.pc = "index_end", !.raised = TRUE]
    /\ UNCHANGED <<redisUp, now, storeVars, chatVars, degraded, lateAttempt, instMemOnly,
                   lastCall, lastSet, calls, dialogVars, sandboxVars, botVars, run, gen, kbVars>>

\* the last write of the task: "failed" or "indexed"
IntgIndexEnd ==
    /\ intg.pc = "index_end"
    /\ TaskStatusWrite([status |-> final_status(intg.indexed_any, intg.raised)])
    /\ intg' = [intg EXCEPT !.pc = "check", !.tstore = mark_unavailable(intg.tstore)]
    /\ UNCHANGED <<redisUp, now, listVars, chatVars, degraded, lateAttempt, instMemOnly,
                   lastCall, lastSet, calls, dialogVars, sandboxVars, botVars, run, gen, kbVars>>

\* the notification starts: the bot of app.state, then the numeric check
IntgNotifyCheck ==
    /\ intg.pc = "check"
    /\ intg' = IF ~is_chat_id(intg.user)
               THEN [intg EXCEPT !.pc = "done", !.notif = "skipped"]
               ELSE IF intg.op = "profile" THEN [intg EXCEPT !.pc = "read"]
               ELSE [intg EXCEPT !.pc = "send"]
    /\ UNCHANGED <<redisUp, now, storeVars, chatVars, degraded, lateAttempt, instMemOnly,
                   lastCall, lastSet, calls, dialogVars, sandboxVars, botVars, run, gen, kbVars>>

\* _notify_bot_profile_saved: RedisStore().get_json of the integration record;
\* a connected integration needs no reminder
IntgNotifyRead ==
    /\ intg.pc = "read"
    /\ LET state == get_json(FALSE, IntegrationKey(intg.user))
       IN intg' = IF state # NoneVal /\ state.status = "connected"
                  THEN [intg EXCEPT !.pc = "done", !.notif = "skipped"]
                  ELSE [intg EXCEPT !.pc = "send"]
    /\ UNCHANGED <<redisUp, now, storeVars, chatVars, degraded, lateAttempt, instMemOnly,
                   lastCall, lastSet, calls, dialogVars, sandboxVars, botVars, run, gen, kbVars>>

\* the keyboard is built and bot.send_message is awaited, inside the try
IntgNotifySend ==
    /\ intg.pc = "send"
    /\ \/ intg' = [intg EXCEPT !.pc = "done", !.notif = "sent"]
       \/ \E exc \in NotifyErrors :
             intg' = [intg EXCEPT !.pc = "done", !.notif = "failed",
                                  !.escaped = ~notify_catches(exc)]
    /\ UNCHANGED <<redisUp, now, storeVars, chatVars, degraded, lateAttempt, instMemOnly,
                   lastCall, lastSet, calls, dialogVars, sandboxVars, botVars, run, gen, kbVars>>

\* the request and its background tasks are over
IntgClose ==
    /\ intg.pc = "done"
    /\ intg' = IdleIntg
    /\ UNCHANGED <<redisUp, now, storeVars, chatVars, degraded, lateAttempt, instMemOnly,
                   lastCall, lastSet, calls, dialogVars, sandboxVars, botVars, run, gen, kbVars>>

\* ------------------------------------------------- bot: the onboarding gate
\* what the bot receives: a free-form text, a text that starts with "/", a
\* voice message, a document
MessageKinds == {"text", "command", "voice", "document"}

\* OnboardingStage
PROFILE == "profile_needed"
INTEGRATION == "integration_needed"
READY == "ready"

\* faulty variant: a stored profile is enough
stage_of_profile_only(profile, integration) ==
    IF profile = NoneVal THEN PROFILE ELSE READY

\* get_onboarding_status: not profile / not integration or
\* integration.get("status") != "connected" (no stored record is an empty dict)
stage_of(profile, integration) ==
    IF profile = NoneVal THEN PROFILE
    ELSE IF integration = NoneVal \/ integration.status # "connected" THEN INTEGRATION
    ELSE READY

IdleBot ==
    [pc |-> "idle", kind |-> "none", user |-> "A", store |-> FALSE,
     profile |-> NoneVal, integration |-> NoneVal, stage |-> "none",
     allowed |-> FALSE, answered |-> "none", forwarded |-> "none"]

botFrame ==
    <<redisUp, now, storeVars, chatVars, degraded, lateAttempt, instMemOnly,
      lastCall, lastSet, calls, dialogVars, sandboxVars, run, gen, kbVars, intgVars>>

\* handle_text, handle_voice, handle_document up to ensure_onboarding_ready:
\* handle_text returns at once on a text that starts with "/";
\* ensure_onboarding_ready builds a RedisStore of its own
BotStart(kind, u) ==
    /\ bot.pc = "idle"
    /\ bot' = [IdleBot EXCEPT !.kind = kind, !.user = u,
                              !.pc = IF kind = "command" THEN "done" ELSE "profile"]
    /\ UNCHANGED botFrame

\* profile = await local_store.get_json(f"company-profile:{user_id}")
BotReadProfile ==
    /\ bot.pc = "profile"
    /\ bot' = [bot EXCEPT !.pc = "integration",
                          !.profile = get_json(bot.store, ProfileKey(bot.user)),
                          !.store = mark_unavailable(bot.store)]
    /\ UNCHANGED botFrame

\* integration = await local_store.get_json(f"integration:alpha-business:{user_id}")
\* and the stage
BotReadIntegration ==
    /\ bot.pc = "integration"
    /\ LET integration == get_json(bot.store, IntegrationKey(bot.user))
       IN bot' = [bot EXCEPT !.pc = "gate",
                             !.integration = integration,
                             !.stage = stage_of(bot.profile, integration),
                             !.store = mark_unavailable(bot.store)]
    /\ UNCHANGED botFrame

\* ensure_onboarding_ready after the status: True when the stage is READY,
\* otherwise the prompt of the stage is answered and the handler returns
BotGate ==
    /\ bot.pc = "gate"
    /\ bot' = IF bot.stage = READY
              THEN [bot EXCEPT !.allowed = TRUE,
                               !.pc = IF bot.kind = "voice" THEN "transcribe"
                                      ELSE "forward"]
              ELSE [bot EXCEPT !.pc = "done", !.answered = bot.stage]
    /\ UNCHANGED botFrame

\* handle_voice: the transcription; without a text the handler answers and
\* returns
BotTranscribe ==
    /\ bot.pc = "transcribe"
    /\ \E text \in BOOLEAN :
          bot' = IF text THEN [bot EXCEPT !.pc = "forward"]
                 ELSE [bot EXCEPT !.pc = "done", !.answered = "no_speech"]
    /\ UNCHANGED botFrame

\* client.post to /chat/messages, or to /knowledge/documents for a document
BotForward ==
    /\ bot.pc = "forward"
    /\ bot' = [bot EXCEPT !.pc = "done",
                          !.forwarded = IF bot.kind = "document"
                                        THEN "/knowledge/documents"
                                        ELSE "/chat/messages"]
    /\ UNCHANGED botFrame

\* the handler has returned
BotClose ==
    /\ bot.pc = "done"
    /\ bot' = IdleBot
    /\ UNCHANGED botFrame

\* ------------------------------------------------------------ environment
RedisFail ==
    /\ redisUp
    /\ redisUp' = FALSE
    /\ UNCHANGED <<now, storeVars, chatVars, directVars>>

RedisRecover ==
    /\ ~redisUp
    /\ redisUp' = TRUE
    /\ lastSet' = [k \in DOMAIN lastSet |->
                      IF lastSet[k] = NoneVal THEN NoneVal
                      ELSE [lastSet[k] EXCEPT !.down = FALSE]]
    /\ UNCHANGED <<now, storeVars, chatVars, degraded, lateAttempt,
                   instMemOnly, lastCall, calls, dialogVars, toolVars>>

Tick ==
    /\ now < MaxNow
    /\ now' = now + TickStep
    /\ UNCHANGED <<redisUp, storeVars, chatVars, directVars>>

Init ==
    /\ redisUp = TRUE
    /\ redisJson = [k \in JsonKeys |-> NoneVal]
    /\ redisLists = [u \in Users |-> <<>>]
    /\ memJson = [k \in JsonKeys |-> NoneVal]
    /\ memLists = [u \in Users |-> <<>>]
    /\ now = 0
    /\ convMemOnly = FALSE
    /\ req = [r \in Slots |-> IdleReq]
    /\ started = 0
    /\ posted = 0
    /\ nextPlan = 1
    /\ plans = [p \in PlanIds |-> NoneVal]
    /\ runs = [p \in PlanIds |-> {}]
    /\ execLog = {}
    /\ dialogIndex = [u \in Users |-> 0]
    /\ degraded = FALSE
    /\ lateAttempt = FALSE
    /\ instMemOnly = [i \in Insts |-> FALSE]
    /\ lastCall = NoneVal
    /\ lastSet = [k \in FreeKeys |-> NoneVal]
    /\ calls = 0
    /\ task = [t \in Tasks |-> IdleTask]
    /\ memLock = 0
    /\ pushLog = [u \in Users |-> <<>>]
    /\ memLog = [u \in Users |-> <<>>]
    /\ lastDel = [u \in Users |-> "none"]
    /\ nextMsg = 1
    /\ run = IdleRun
    /\ gen = IdleGen
    /\ kb = [exists |-> [i \in Indices |-> FALSE], creates |-> [i \in Indices |-> 0],
             documents |-> {}, dialogs |-> {}]
    /\ kbCall = IdleKbCall
    /\ boot = IdleBoot
    /\ intg = IdleIntg
    /\ SAFE_BUILTINS = BuiltinsAsDefined
    /\ bot = IdleBot

Handlers(r) ==
    \/ PostAppendUser(r) \/ PostFetch(r) \/ PostProfile(r) \/ PostSearch(r)
    \/ PostDecide(r) \/ PostDraftAdvisor(r) \/ PostAppendAdvisor(r)
    \/ PostIndexAdvisor(r) \/ PostDraftPlan(r) \/ PostPersist(r) \/ PostAppendPlan(r)
    \/ ExecLookup(r) \/ ExecDraft(r) \/ ExecAppend(r) \/ ExecIndex(r) \/ ExecDelete(r)
    \/ ResetDelete(r) \/ Close(r)

Arrivals(conc) ==
    \E r \in Slots, u \in Users :
        \/ StartPost(r, u, conc)
        \/ \E p \in PlanIds : StartExec(r, u, p, conc)
        \/ StartReset(r, u, conc)

Environment == RedisFail \/ RedisRecover \/ Tick

\* requests of several users interleave at every await
Next == Arrivals(MaxConc) \/ (\E r \in Slots : Handlers(r)) \/ Environment

Spec == Init /\ [][Next]_vars

\* one request at a time: a request arrives only after the previous one returned
SeqNext == Arrivals(1) \/ (\E r \in Slots : Handlers(r)) \/ Environment

SpecSeq == Init /\ [][SeqNext]_vars

\* the wrapper driven directly, by callers holding their own instances
StoreCalls ==
    \/ \E i \in Insts, key \in FreeKeys :
          \/ \E value \in FreeValues, expire \in {NoExpire, PlanTTL} :
                CallSetJson(i, key, value, expire)
          \/ CallGetJson(i, key)
          \/ CallDelete(i, key)
    \/ \E i \in Insts, pattern \in Patterns : CallKeys(i, pattern)

StoreNext == StoreCalls \/ Environment

StoreSpec == Init /\ [][StoreNext]_vars

\* the dialog list of the wrapper driven by callers that run together
DialogNext ==
    \/ TaskArrivals(MaxConc)
    \/ \E t \in Tasks : TaskSteps(t)
    \/ RedisFail \/ RedisRecover

DialogSpec == Init /\ [][DialogNext]_vars

\* the same, one call at a time
DialogSeqNext ==
    \/ TaskArrivals(1)
    \/ \E t \in Tasks : TaskSteps(t)
    \/ RedisFail \/ RedisRecover

DialogSeqSpec == Init /\ [][DialogSeqNext]_vars

\* the sandbox driven directly with every payload
ToolNext ==
    \/ \E name \in ToolNames, code \in Codes, variables \in Variables :
          ToolRun(name, code, variables)
    \/ ExecStep
    \/ ExecReturn
    \/ ExecClose

ToolSpec == Init /\ [][ToolNext]_vars

\* every operation of the wrapper, one call at a time, while the durable
\* store fails and recovers
WrapperNext ==
    \/ StoreCalls
    \/ TaskArrivals(1)
    \/ \E t \in Tasks : TaskSteps(t)
    \/ RedisFail \/ RedisRecover

WrapperSpec == Init /\ [][WrapperNext]_vars

\* the generation client and the plan drafting driven with every content
GenNext ==
    \/ \E op \in GenOps : GenStart(op)
    \/ GenFirst \/ GenSecond \/ GenParse \/ GenClose

GenSpec == Init /\ [][GenNext]_vars

\* the knowledge retrieval facade, one call at a time, with an embedding
\* provider and a vector index that may fail at any call
KbNext ==
    \/ BootStart \/ BootExists \/ BootCreate \/ BootClose
    \/ \E q \in Queries : KbStart("search", q, 0)
    \/ \E d \in DialogIds : KbStart("index_dialog", d, 0)
    \/ \E src \in Sources, n \in 0..MaxChunks : KbStart("ingest", src, n)
    \/ KbLoop \/ KbEmbed \/ KbStore \/ KbClose

KbSpec == Init /\ [][KbNext]_vars

\* the integration router, one request at a time, while the durable store
\* fails and recovers
IntgNext ==
    \/ \E u \in Users, name \in CompanyNames : IntgStart("profile", u, name)
    \/ \E u \in Users : IntgStart("alpha", u, "")
    \/ IntgWrite \/ IntgWriteStatus \/ IntgRespond
    \/ IntgIndex \/ IntgIndexDocs \/ IntgIndexEnd
    \/ IntgNotifyCheck \/ IntgNotifyRead \/ IntgNotifySend \/ IntgClose
    \/ RedisFail \/ RedisRecover

IntgSpec == Init /\ [][IntgNext]_vars

\* the bot handling the messages of one user, one at a time, while the
\* integration router serves the requests of that user and the durable store
\* fails and recovers
BotNext ==
    \/ \E kind \in MessageKinds : BotStart(kind, "A")
    \/ BotReadProfile \/ BotReadIntegration \/ BotGate \/ BotTranscribe
    \/ BotForward \/ BotClose
    \/ \E name \in CompanyNames : IntgStart("profile", "A", name)
    \/ IntgStart("alpha", "A", "")
    \/ IntgWrite \/ IntgWriteStatus \/ IntgRespond
    \/ IntgIndex \/ IntgIndexDocs \/ IntgIndexEnd
    \/ IntgNotifyCheck \/ IntgNotifyRead \/ IntgNotifySend \/ IntgClose
    \/ RedisFail \/ RedisRecover

BotSpec == Init /\ [][BotNext]_vars

\* ================================================================ claims
ExecReq(r) == req[r].kind = "exec"
Ran(r) == req[r].result # "none"
PlanAbsent(p) == RedisGet(PlanKey(p)) = NoneVal /\ memJson[PlanKey(p)] = NoneVal


\* C1: at-most-once execution, one request at a time: once an execute
\* request by the owner has run the code with a successful result, the plan
\* record is absent from the store and every later execute request for that
\* plan_id ends 404 without running the code.
C1_AtMostOnceSequential ==
    /\ \A p \in PlanIds : "ok" \in runs[p] => PlanAbsent(p)
    /\ \A r \in Slots :
          (ExecReq(r) /\ "ok" \in req[r].prior)
          => (~Ran(r) /\ (Finished(r) => req[r].status = 404))

\* C2: at-most-once execution under concurrency: of the execute requests for
\* one plan_id that are in flight together, at most one has invoked the
\* executor.
C2_AtMostOnceConcurrent ==
    \A r1, r2 \in Slots :
        (r1 # r2 /\ ExecReq(r1) /\ ExecReq(r2) /\ InFlight(r1) /\ InFlight(r2)
         /\ req[r1].plan = req[r2].plan)
        => ~(Ran(r1) /\ Ran(r2))

\* C3: at-most-once execution under retry: an execute request issued after an
\* earlier one ran the code and then failed in a later step does not run the
\* code again.
C3_NoRerunOnRetry ==
    \A r \in Slots : (ExecReq(r) /\ "failed" \in req[r].prior) => ~Ran(r)

\* C4: ownership isolation: the lookup step of an execute request by a user
\* other than the one who persisted the plan, when it finds the record, ends
\* the request with 403, runs nothing and leaves both maps of the JSON
\* namespace as they were.
C4_OwnershipIsolation ==
    [][\A r \in Slots :
          (/\ ExecReq(r) /\ req[r].pc = "lookup" /\ req'[r].pc # "lookup"
           /\ plans[req[r].plan] # NoneVal
           /\ plans[req[r].plan].owner # req[r].user
           /\ get_json(req[r].store, PlanKey(req[r].plan)) # NoneVal)
          => (/\ req'[r].pc = "done" /\ req'[r].status = 403
              /\ ~Ran(r)' /\ execLog' = execLog
              /\ redisJson' = redisJson /\ memJson' = memJson)]_vars

\* a 403 was answered and a pending execute of the owner still finds the record
C4_Witness ==
    \E r, q \in Slots :
        /\ ExecReq(r) /\ req[r].status = 403
        /\ ExecReq(q) /\ req[q].pc = "lookup" /\ req[q].plan = req[r].plan
        /\ plans[req[q].plan].owner = req[q].user
        /\ get_json(req[q].store, PlanKey(req[q].plan)) # NoneVal

\* C5: confirm before execute: every invocation of the executor was made by an
\* execute request, for the plan_id it carries, by the user who persisted the
\* plan, after the plan was persisted; a post_message request never invokes it.
C5_ConfirmBeforeExecute ==
    /\ \A e \in execLog :
          /\ e.kind = "exec"
          /\ e.asked = e.plan
          /\ plans[e.plan] # NoneVal
          /\ plans[e.plan].owner = e.user
    /\ \A r \in Slots : Ran(r) => ExecReq(r)

C5_Witness ==
    /\ execLog # {}
    /\ \E r \in Slots : ExecReq(r) /\ Ran(r) /\ req[r].status = 200

\* C6: deletion ordering: an execute request deletes the plan record only
\* after the executor produced a result, and a request that produced a result
\* (success or failure) and whose provider and index calls all answered has
\* deleted the record when it returns.
C6_DeleteAfterResult ==
    \A r \in Slots :
        /\ req[r].deleted => Ran(r)
        /\ (ExecReq(r) /\ Finished(r) /\ Ran(r)
            /\ req[r].fault \notin {"provider", "index"}) => req[r].deleted

\* C7: plan TTL on the durable path: once the TTL of a plan persisted in the
\* durable store has run out, get_json does not return it on any instance,
\* and an execute request whose lookup comes after the expiry ends 404 without
\* running the code.
C7_PlanTTL ==
    /\ \A p \in PlanIds : PlanExpired(p)
          => \A flag \in BOOLEAN : get_json(flag, PlanKey(p)) = NoneVal
    /\ \A r \in Slots :
          (ExecReq(r) /\ req[r].stale)
          => (req[r].status = 404 /\ ~Ran(r))

C7_Witness ==
    \E r \in Slots :
        /\ ExecReq(r) /\ req[r].status = 404
        /\ req[r].stale
        /\ plans[req[r].plan].owner = req[r].user
        /\ redisJson[PlanKey(req[r].plan)] # NoneVal

\* C8: store fallback round trip: a get_json of a key whose last set_json was
\* made while the durable store was failing, with the store failing ever
\* since and no delete in between, returns the value set, from the in-memory
\* path, on the same instance and on another one.
C8_FallbackRoundTrip ==
    (lastCall # NoneVal /\ lastCall.op = "get"
     /\ lastCall.want # NoneVal /\ lastCall.want.down)
    => (lastCall.ret = lastCall.want.value /\ lastCall.path = "memory")

\* the round trip across two instances: the reader's instance was not degraded
\* when it read
C8_Witness ==
    /\ lastCall # NoneVal /\ lastCall.op = "get"
    /\ lastCall.want # NoneVal /\ lastCall.want.down
    /\ lastCall.ret = lastCall.want.value
    /\ \E i \in Insts : i # lastCall.inst /\ instMemOnly[i]
    /\ calls = 2

\* C9: process-wide sticky degradation: after a store operation has observed
\* a durable error, no store operation attempts the durable store.
C9_StickyDegradation == ~lateAttempt

\* C10 as stated: a get_json of a key after a completed set_json, with no
\* delete or expiry in between, returns the value set, whatever the durable
\* store did in between.
C10_ReadYourWrites ==
    (lastCall # NoneVal /\ lastCall.op = "get" /\ lastCall.want # NoneVal)
    => lastCall.ret = lastCall.want.value

\* C10 as amended: it returns the value set when it is served by the path
\* that served the set_json.
C10_ReadYourWritesSamePath ==
    (lastCall # NoneVal /\ lastCall.op = "get" /\ lastCall.want # NoneVal
     /\ lastCall.want.path = lastCall.path)
    => lastCall.ret = lastCall.want.value

\* the durable store failed and recovered between the set_json and the get_json
C10_Witness ==
    /\ lastCall # NoneVal /\ lastCall.op = "get" /\ lastCall.want # NoneVal
    /\ lastCall.want.path = "redis" /\ lastCall.path = "redis"
    /\ lastCall.ret = lastCall.want.value
    /\ degraded

\* ---- claims on the wrapper's operations
MemValue(key) == IF memJson[key] # NoneVal THEN json_loads(memJson[key]) ELSE NoneVal

\* C11: no store operation raises on store failure: a call of push_dialog,
\* fetch_dialog, set_json, get_json, delete or keys never ends with an
\* exception, and one whose durable call failed is served by the in-memory
\* path and returns the in-memory value.
C11_NoRaiseOnStoreFailure ==
    /\ lastCall # NoneVal =>
          /\ lastCall.path # "raised"
          /\ lastCall.failed =>
                /\ lastCall.path = "memory"
                /\ lastCall.op = "get" => lastCall.ret = MemValue(lastCall.key)
                /\ lastCall.op = "keys" => lastCall.ret = keys_mem(lastCall.key)
    /\ \A t \in Tasks :
          /\ task[t].pc # "raised"
          /\ (task[t].pc = "done" /\ task[t].failed) =>
                /\ task[t].path = "memory"
                /\ task[t].op = "fetch" =>
                      task[t].ret = py_tail(task[t].seen, task[t].limit)

\* a fetch_dialog whose durable call failed returned the items kept in memory
C11_Witness ==
    \E t \in Tasks :
        /\ task[t].op = "fetch" /\ task[t].pc = "done" /\ task[t].failed
        /\ task[t].path = "memory" /\ task[t].ret # <<>>

IsPrefixPattern(pat) ==
    /\ Len(pat) >= 2
    /\ pat[Len(pat)] = "*"
    /\ pat[Len(pat) - 1] = ":"
    /\ \A n \in 1..(Len(pat) - 2) : pat[n] \notin {"*", "?"}

StartsWith(name, prefix) ==
    Len(name) >= Len(prefix) /\ SubSeq(name, 1, Len(prefix)) = prefix

StoredWithPrefix(prefix) ==
    {key_name(k) : k \in {j \in JsonKeys : memJson[j] # NoneVal
                                           /\ StartsWith(key_name(j), prefix)}}

\* C12: prefix listing on the in-memory path: keys("prefix:*") returns
\* exactly the names of the keys held in the in-memory map that start with
\* "prefix:".
C12_PrefixListing ==
    (lastCall # NoneVal /\ lastCall.op = "keys" /\ lastCall.path = "memory"
     /\ IsPrefixPattern(lastCall.key))
    => lastCall.ret = StoredWithPrefix(SubSeq(lastCall.key, 1, Len(lastCall.key) - 1))

\* keys("doc:*") listed doc:1 and left out docs:1, which is stored too
C12_Witness ==
    /\ lastCall # NoneVal /\ lastCall.op = "keys" /\ lastCall.path = "memory"
    /\ lastCall.key = <<"d", "o", "c", ":", "*">>
    /\ lastCall.ret = {<<"d", "o", "c", ":", "1">>}
    /\ \A k \in FreeKeys : memJson[k] # NoneVal

\* C13: the in-memory fallback is lock-protected: a task reads or writes the
\* in-memory list only while it holds the lock, no two tasks are inside
\* together, the list holds exactly the items of the completed in-memory
\* pushes in their order (no lost update), and every in-memory fetch read a
\* list made of completed pushes only.
C13_LockProtected ==
    /\ \A t \in Tasks : task[t].pc \in {"crit", "write"} => memLock = t
    /\ \A t1, t2 \in Tasks :
          (t1 # t2 /\ task[t1].pc \in {"crit", "write"})
          => task[t2].pc \notin {"crit", "write"}
    /\ \A u \in Users : memLists[u] = memLog[u]
    /\ \A t \in Tasks :
          (task[t].op = "fetch" /\ task[t].pc = "done" /\ task[t].path = "memory")
          => task[t].snapOk

\* a push waits for the lock while another push of the same user is between
\* its read and its write, after an earlier push completed
C13_Witness ==
    \E t1, t2 \in Tasks :
        /\ task[t1].op = "push" /\ task[t1].pc = "write"
        /\ task[t2].op = "push" /\ task[t2].pc = "lock"
        /\ task[t1].user = task[t2].user
        /\ Len(memLists[task[t1].user]) = 1

Msgs(log) == [n \in 1..Len(log) |-> log[n].msg]

LastN(items, n) == SubSeq(items, Len(items) - Min(n, Len(items)) + 1, Len(items))

C15_ReadsCapped ==
    \A t \in Tasks :
        (task[t].op = "fetch" /\ task[t].pc = "done")
        => Len(task[t].ret) <= task[t].limit

\* ---- claims on the sandbox
\* C16: every result returned is fully populated: success with an output and
\* no error, or failure with a non-empty error string.
C16_ResultPopulated ==
    run.pc = "returned" =>
        \/ run.res.success /\ run.res.output # <<>> /\ run.res.error = NoneVal
        \/ ~run.res.success /\ run.res.error # NoneVal /\ run.res.error.text # ""

\* C17: execution is time-boxed: no script is still running after the
\* configured timeout.
C17_TimeBoxed == run.pc = "running" => run.elapsed <= calculator_timeout_sec

\* C18: sandbox faults are captured: no exception leaves CalculatorEngine.run
\* for any plan payload, and a script that raised or used a capability
\* outside the allow-list yields success=false with the error captured.
C18_FaultsCaptured ==
    /\ run.pc # "raised"
    /\ (run.pc = "returned" /\ run.fault # "none")
       => (~run.res.success /\ run.res.error # NoneVal)

\* C19: unknown tool is a result, not an exception: a request whose name is
\* not a registered tool returns success=false with error "Unknown tool" and
\* empty output, and no statement of its code runs.
C19_UnknownTool ==
    (run.pc # "idle" /\ valid_request(run.code) /\ run.name # PythonTool)
    => /\ run.pc = "returned"
       /\ run.res = unknown_tool_result(run.name)
       /\ ~run.res.success /\ run.res.error = [text |-> "Unknown tool"]
       /\ run.steps = 0

\* a request for an unknown tool carrying a script of two statements
C19_Witness ==
    /\ run.pc = "returned" /\ run.name = "unknown_tool"
    /\ Len(run.code.body) = 2
    /\ run.res.error = [text |-> "Unknown tool"]

\* C20: result echo: after a run that raised nothing, the output is the
\* captured text followed by the line "result = <value>" when the namespace
\* holds a variable named result (assigned by the script or supplied in
\* variables), and the captured text alone (or "<no output>") when it does not.
C20_ResultEcho ==
    (run.pc = "returned" /\ run.res.success) =>
        LET text == strip(run.stdout)
            out == run.res.output
        IN IF run.ns # NoneVal
           THEN /\ out[Len(out)] = EchoLine(run.ns.result)
                /\ SubSeq(out, 1, Len(out) - 1) = (IF text = <<>> THEN <<"">> ELSE text)
           ELSE out = (IF text = <<>> THEN <<"<no output>">> ELSE text)

\* print("x"); result = 42 gave the two lines x and result = 42
C20_Witness ==
    /\ run.pc = "returned" /\ run.res.success
    /\ run.code.body = <<"print", "assign">>
    /\ run.res.output = <<"x", "result = 42">>

\* C21: whenever the structured plan-drafting call is not a provider error,
\* draft_calculator_plan and the construction of the CalculatorPlan succeed,
\* whatever the provider returned (keys missing, values of another type, a
\* value that is not an object, the empty object).
C21_PlanConstructible ==
    (gen.pc = "done" /\ gen.op = "plan" /\ gen.error # "OpenAIError")
        => gen.error = "none"

\* C22: a post_message request whose classification call succeeded ends with
\* a reply.
C22_ReplyProduced ==
    \A r \in Slots :
        (req[r].kind = "post" /\ Finished(r)
         /\ req[r].classified \in {"advisor", "calculator"})
            => req[r].status = 200

\* C23: when the classification call raises, post_message surfaces the error,
\* and the request writes neither a plan record nor an assistant message.
C23_ClassificationFatal ==
    \A r \in Slots :
        req[r].classified = "raised"
            => /\ req[r].pc = "done"
               /\ req[r].status = 500
               /\ req[r].plan = 0
               /\ req[r].wrote \cap {"plan", "assistant"} = {}

C23_Witness ==
    \E r \in Slots :
        /\ req[r].classified = "raised"
        /\ req[r].status = 500
        /\ req[r].wrote = {"user"}

\* C24: when a provider call succeeded, generate_structured returns an object
\* (the parsed object, the dict of the literal fallback, or the empty object)
\* and does not raise.
C24_StructuredIsObject ==
    (gen.pc = "done" /\ gen.op = "structured" /\ gen.error = "none")
        => gen.result.type = "object"

\* C25: when the embedding provider fails, search returns hits=[] with
\* embedding_available=false, and index_dialog returns false without raising
\* and without writing to the vector index.
C25_DegradationTransparency ==
    (kbCall.pc = "done" /\ kbCall.op \in {"search", "index_dialog"}
     /\ kbCall.failed # {})
        => /\ ~kbCall.raised
           /\ kbCall.op = "search" => kbCall.ret = NoHits(kbCall.arg)
           /\ kbCall.op = "index_dialog"
                 => kbCall.ret = [value |-> FALSE] /\ kb.dialogs = kbCall.before

C25_Witness ==
    /\ kbCall.pc = "done"
    /\ kbCall.op = "index_dialog"
    /\ kbCall.failed # {}
    /\ kbCall.ret = [value |-> FALSE]

\* C26: with a vector index that answers, ingest attempts every chunk, upserts
\* exactly the chunks whose embedding succeeded, each under '<source.id>:<index>',
\* and returns true iff at least one chunk was upserted.
C26_IngestSkipsFailedChunks ==
    (kbCall.pc = "done" /\ kbCall.op = "ingest" /\ ~kbCall.raised)
        => /\ kbCall.embedded \cup kbCall.failed = ChunkIndexes(kbCall.n)
           /\ kbCall.embedded \cap kbCall.failed = {}
           /\ kb.documents =
                 kbCall.before \cup {chunk_id(kbCall.arg, i) : i \in kbCall.embedded}
           /\ kbCall.ret = [value |-> kbCall.embedded # {}]

C26_Witness ==
    /\ kbCall.pc = "done"
    /\ kbCall.op = "ingest"
    /\ ~kbCall.raised
    /\ kbCall.failed = {0}
    /\ kbCall.embedded = {1}
    /\ chunk_id(kbCall.arg, 1) \in kb.documents
    /\ chunk_id(kbCall.arg, 0) \notin kb.documents
    /\ kbCall.ret = [value |-> TRUE]

\* C27: after an initialize call that returned both indices exist, each index
\* is created at most once, and a call made when both exist asks for no
\* creation.
C27_InitializeIdempotent ==
    /\ \A i \in Indices : kb.creates[i] <= 1
    /\ (boot.pc = "done" /\ ~boot.raised) => \A i \in Indices : kb.exists[i]
    /\ boot.ready => \A i \in Indices : kb.exists[i]
    /\ boot.sawAll => boot.asked = {}

C27_Witness ==
    /\ boot.n >= 2
    /\ boot.pc = "done"
    /\ boot.sawAll
    /\ ~boot.raised
    /\ \A i \in Indices : kb.creates[i] = 1

\* C28: a logical call of the generation provider reaches the provider at
\* most once: a failed call is not issued again.
C28_NoRetry == gen.sent <= 1

\* C29: a notification is scheduled only after the record was written and the
\* request answered; whatever the notification does, nothing it raises
\* escapes, and the stored record stays as it was when the notification was
\* scheduled.
C29_NotificationsDecoupled ==
    /\ ~intg.escaped
    /\ intg.notif # "none"
          => /\ intg.wrote
             /\ intg.status = 200
             /\ Stored(RecordKey(intg)) # <<NoneVal, NoneVal>>
             /\ Stored(RecordKey(intg)) = intg.snap

C29_Witness ==
    /\ intg.op = "profile"
    /\ intg.notif = "failed"
    /\ intg.pc = "done"
    /\ Stored(RecordKey(intg)) = intg.snap

\* the request has invoked no executor, appended no message, indexed no
\* dialog, and written or deleted no key
Untouched(r) ==
    /\ req[r].wrote = {}
    /\ req[r].result = "none"
    /\ ~req[r].deleted

\* the record of the plan the request names belongs to another user
NotOwner(r) ==
    /\ plans[req[r].plan] # NoneVal
    /\ plans[req[r].plan].owner # req[r].user

\* C30: an execute that fails with 'not found' or 'forbidden', and any
\* execute by a user who does not own the plan, invokes no executor, appends
\* no message, indexes no dialog, and writes or deletes no store key; the step
\* that rejects it leaves the stores, the vector index and the executor alone.
C30_RejectedExecuteNoSideEffects ==
    /\ [](\A r \in Slots :
            req[r].kind = "exec"
                => /\ req[r].status \in {403, 404} => Untouched(r)
                   /\ NotOwner(r)
                         => /\ Untouched(r)
                            /\ \A e \in execLog :
                                  ~(e.user = req[r].user /\ e.asked = req[r].plan))
    /\ [][\A r \in Slots :
            (req[r].kind = "exec" /\ req[r].pc = "lookup"
             /\ req'[r].status \in {403, 404})
                => UNCHANGED <<storeVars, dialogIndex, execLog>>]_vars

C30_Witness ==
    \E r \in Slots :
        /\ req[r].kind = "exec"
        /\ req[r].status = 403
        /\ NotOwner(r)
        /\ Untouched(r)
        /\ get_json(FALSE, PlanKey(req[r].plan)) # NoneVal
        /\ redisLists[req[r].user] = <<>>

\* what KEYS of the durable store would list had the calls served by the
\* in-memory path reached it: the keys of every type held there
keys_mem_every_type(pattern) ==
    keys_mem(pattern)
    \cup {dialog_key(u) : u \in {v \in Users : memLists[v] # <<>>
                                             /\ fnmatch(dialog_key(v), pattern)}}

\* C33: the in-memory path lists keys like the durable store: keys(pattern)
\* answered by the in-memory path returns every stored key that matches the
\* pattern, the keys of the lists written by push_dialog included.
C33_KeysListsEveryType ==
    [][(calls' = calls + 1 /\ task' = task /\ lastCall'.op = "keys"
        /\ lastCall'.path = "memory")
       => lastCall'.ret = keys_mem_every_type(lastCall'.key)]_vars

\* C34: the two paths of fetch_dialog agree: a fetch answered by one path
\* returned what the arithmetic of the other path yields on the same list, for
\* every limit >= 0: the slice [-limit:] on the in-memory path, and the range
\* from max(length - limit, 0) to the end on the durable path.
C34_FetchPathsAgree ==
    \A t \in Tasks :
        (task[t].op = "fetch" /\ task[t].pc = "done")
        => /\ task[t].path = "memory"
              => task[t].ret
                 = lrange(task[t].seen, Max(Len(task[t].seen) - task[t].limit, 0))
           /\ task[t].path = "redis"
              => task[t].ret = py_tail(redisLists[task[t].user], task[t].limit)

\* ConversationManager.get_recent_messages called now: fetch_dialog on the
\* long-lived store of the manager (the history holds fewer items than the
\* default limit of 10)
get_recent_messages(user) ==
    IF RedisOk(convMemOnly) THEN redisLists[user] ELSE memLists[user]

\* C35: reset clears the history: once reset_context(user) has returned
\* success, and before another message of the user is appended,
\* get_recent_messages(user) returns the empty list, whatever the degradation
\* state of the store of the request and of the store of the manager.
C35_ResetClearsHistory ==
    \A r \in Slots :
        (req[r].kind = "reset" /\ Finished(r) /\ req[r].status = 200)
        => get_recent_messages(req[r].user) = <<>>

\* C32: no expiry on the in-memory path: a plan persisted through the
\* in-memory path stays executable by its owner until an execute request
\* deletes it: while its record is in the in-memory map, an execute request of
\* the owner is not answered 404, however much time has passed.
C32_MemoryPlanStaysExecutable ==
    \A r \in Slots :
        (/\ ExecReq(r) /\ Finished(r) /\ req[r].status = 404
         /\ plans[req[r].plan] # NoneVal
         /\ plans[req[r].plan].path = "memory"
         /\ plans[req[r].plan].owner = req[r].user)
        => memJson[PlanKey(req[r].plan)] = NoneVal

\* the record stored under plan:{p}, on either path
StoredPlans(p) == {RedisGet(PlanKey(p)), memJson[PlanKey(p)]} \ {NoneVal}

\* C31: plan creation: a message classified as calculator persists one plan
\* record, under a fresh plan_id, whose stored owner is the requesting user; a
\* message classified as advisor persists none; a stored plan record is the one
\* written at its creation for as long as it is stored.
C31_PlanCreation ==
    /\ \A r \in Slots :
          (req[r].kind = "post" /\ Finished(r))
          => /\ req[r].classified = "calculator"
                => /\ "plan" \in req[r].wrote
                   /\ req[r].plan \in PlanIds
                   /\ plans[req[r].plan] # NoneVal
                   /\ plans[req[r].plan].owner = req[r].user
             /\ req[r].classified = "advisor"
                => ("plan" \notin req[r].wrote /\ req[r].plan = 0)
    /\ \A p \in PlanIds : \A rec \in StoredPlans(p) :
          /\ plans[p] # NoneVal
          /\ rec.json.plan_id = p
          /\ rec.json.user_id = plans[p].owner

\* C36: executions are independent: the result of an execution depends on
\* its own request only: a call of an allowed builtin fails only in an
\* execution whose own script has altered the builtins table before.
C36_ExecutionsIndependent ==
    (run.pc = "returned" /\ run.fault = "call") => run.altered

\* the profile-index-status of a user as a request reads it now (GET
\* /integration/state, on a RedisStore of its own)
profile_index_status(u) == get_json(FALSE, StatusKey(u))

\* C37: profile indexing reaches a terminal status: once the background
\* indexing tasks have finished, the profile-index-status of a user whose
\* profile was saved is 'indexed' or 'failed', not 'queued' or 'processing'.
C37_IndexingTerminal ==
    \A u \in Users :
        (intg.pc = "idle" /\ profile_index_status(u) # NoneVal)
        => profile_index_status(u).status \in {"indexed", "failed"}

====
